---- MODULE Spec2Model ----
(***************************************************************************)
(* Sketch acquisition and de-duplication policy of the new-tab page        *)
(* (src/newtab.js, first variant, lines 1-1024).                           *)
(*                                                                         *)
(* Time is counted in milliseconds from the model epoch, 00:00 UTC of      *)
(* 2024-12-31.  Strings are sequences of characters, so that the code's    *)
(* string operations can be computed.  A JavaScript null (and              *)
(* an absent key of the store) is the empty value of its type: Null for a  *)
(* string, NoTime, NoSketch, NoCache.                                      *)
(*                                                                         *)
(* One step of a flow is one resumption of the async function: the effect  *)
(* of the storage call or network call it awaited, followed by the         *)
(* synchronous code up to its next await.                                  *)
(***************************************************************************)
EXTENDS Integers, Sequences, FiniteSets, TLC

VARIABLES
    store,          \* the Key-Value Store: one slot per key
    now,            \* the clock, Date.now()
    tz,             \* local time minus UTC, in ms, as the Date getters apply it
    onLine,         \* navigator.onLine
    tasks,          \* the async flows in flight, one per slot
    view,           \* what #app shows, and whether the shown sketch was pushed
    refreshOnclick, \* the handler currently assigned to refreshBtn.onclick
    keyListener,    \* a keydown listener of setupInteractions is registered
    listeners,      \* init has registered the online/offline listeners
    isFetching,     \* the global in-flight flag
    events,         \* number of user and browser events so far
    stamp,          \* the record fetched by the flow that last wrote lastFetchTime
    pf              \* arguments and result of the pure function under evaluation

vars == <<store, now, tz, onLine, tasks, view, refreshOnclick, keyListener,
          listeners, isFetching, events, stamp, pf>>

-----------------------------------------------------------------------------
(* Bounds of the model *)

MaxTasks == 2
MaxEvents == 2
MaxCadenceDays == 2

-----------------------------------------------------------------------------
(* Program constants *)

FREQUENCY_DAILY == "daily"
FREQUENCY_HOURLY == "hourly"
FREQUENCY_EACH_TAB == "each-tab"
DEFAULT_FREQUENCY == FREQUENCY_DAILY

DedupAttempts == 5
RecentSize == 24
MaxRetries == 2
HourMs == 60 * 60 * 1000
CacheMaxAge == 2 * 60 * 1000

-----------------------------------------------------------------------------
(* JavaScript Date: the civil calendar, toISOString and the parse of it *)

MsPerDay == 24 * 60 * 60 * 1000

\* days since 1970-01-01 of the civil date y-m-d (proleptic Gregorian)
DaysFromCivil(y, m, d) ==
    LET yy  == IF m <= 2 THEN y - 1 ELSE y
        era == yy \div 400
        yoe == yy - era * 400
        mp  == IF m > 2 THEN m - 3 ELSE m + 9
        doy == (153 * mp + 2) \div 5 + d - 1
        doe == yoe * 365 + yoe \div 4 - yoe \div 100 + doy
    IN  era * 146097 + doe - 719468

\* the civil date of day z since 1970-01-01
CivilFromDays(z) ==
    LET zz  == z + 719468
        era == zz \div 146097
        doe == zz - era * 146097
        yoe == (doe - doe \div 1460 + doe \div 36524 - doe \div 146096) \div 365
        doy == doe - (365 * yoe + yoe \div 4 - yoe \div 100)
        mp  == (5 * doy + 2) \div 153
        d   == doy - (153 * mp + 2) \div 5 + 1
        m   == IF mp < 10 THEN mp + 3 ELSE mp - 9
        y   == yoe + era * 400 + (IF m <= 2 THEN 1 ELSE 0)
    IN  [y |-> y, m |-> m, d |-> d]

EpochDay == DaysFromCivil(2024, 12, 31)

\* the local calendar fields the Date getters return for instant t
LocalCivil(t, zone) == CivilFromDays(EpochDay + (t + zone) \div MsPerDay)
GetDate(t, zone) == LocalCivil(t, zone).d
GetMonth(t, zone) == LocalCivil(t, zone).m - 1
GetFullYear(t, zone) == LocalCivil(t, zone).y

NoTime == [y |-> 0, mo |-> 0, d |-> 0, h |-> 0, mi |-> 0, s |-> 0, ms |-> 0]

\* new Date(t).toISOString(): the UTC fields YYYY-MM-DDTHH:mm:ss.sssZ
ToISOString(t) ==
    LET c   == CivilFromDays(EpochDay + t \div MsPerDay)
        rem == t % MsPerDay
    IN  [y |-> c.y, mo |-> c.m, d |-> c.d,
         h |-> rem \div 3600000, mi |-> (rem % 3600000) \div 60000,
         s |-> (rem % 60000) \div 1000, ms |-> rem % 1000]

\* new Date(isoString).getTime()
ParseISO(iso) ==
    (DaysFromCivil(iso.y, iso.mo, iso.d) - EpochDay) * MsPerDay
        + iso.h * 3600000 + iso.mi * 60000 + iso.s * 1000 + iso.ms

-----------------------------------------------------------------------------
(* Frequency control *)

\* shouldFetchNewSketch with a day taken as 24 hours elapsed
ShouldFetchElapsedDay(frequency, lastFetchTime, t, zone) ==
    IF lastFetchTime = NoTime THEN TRUE
    ELSE CASE frequency = FREQUENCY_DAILY ->
                 t - ParseISO(lastFetchTime) >= MsPerDay
           [] frequency = FREQUENCY_HOURLY ->
                 t - ParseISO(lastFetchTime) >= HourMs
           [] OTHER -> TRUE

\* shouldFetchNewSketch with the hour compared strictly
ShouldFetchStrictHour(frequency, lastFetchTime, t, zone) ==
    IF lastFetchTime = NoTime THEN TRUE
    ELSE CASE frequency = FREQUENCY_DAILY ->
                 LocalCivil(t, zone) # LocalCivil(ParseISO(lastFetchTime), zone)
           [] frequency = FREQUENCY_HOURLY ->
                 t - ParseISO(lastFetchTime) > HourMs
           [] OTHER -> TRUE

\* shouldFetchNewSketch with each-tab falling through to the hourly rule
ShouldFetchFallThrough(frequency, lastFetchTime, t, zone) ==
    IF lastFetchTime = NoTime THEN TRUE
    ELSE CASE frequency = FREQUENCY_DAILY ->
                 LocalCivil(t, zone) # LocalCivil(ParseISO(lastFetchTime), zone)
           [] frequency \in {FREQUENCY_HOURLY, FREQUENCY_EACH_TAB} ->
                 t - ParseISO(lastFetchTime) >= HourMs
           [] OTHER -> TRUE

\* shouldFetchNewSketch with an unknown frequency handled by the daily rule
ShouldFetchUnknownAsDaily(frequency, lastFetchTime, t, zone) ==
    IF lastFetchTime = NoTime THEN TRUE
    ELSE CASE frequency = FREQUENCY_HOURLY ->
                 t - ParseISO(lastFetchTime) >= HourMs
           [] frequency = FREQUENCY_EACH_TAB -> TRUE
           [] OTHER ->
                 LocalCivil(t, zone) # LocalCivil(ParseISO(lastFetchTime), zone)

ShouldFetchNewSketch(frequency, lastFetchTime, t, zone) ==
    IF lastFetchTime = NoTime THEN TRUE
    ELSE LET lastFetch == ParseISO(lastFetchTime)
         IN  CASE frequency = FREQUENCY_DAILY ->
                    \/ GetDate(t, zone) # GetDate(lastFetch, zone)
                    \/ GetMonth(t, zone) # GetMonth(lastFetch, zone)
                    \/ GetFullYear(t, zone) # GetFullYear(lastFetch, zone)
               [] frequency = FREQUENCY_HOURLY -> t - lastFetch >= HourMs
               [] frequency = FREQUENCY_EACH_TAB -> TRUE
               [] OTHER -> TRUE

-----------------------------------------------------------------------------
(* Strings, as sequences of characters *)

Null == <<>>

\* a || b on strings: the empty string and null are falsy
Or(a, b) == IF a # Null THEN a ELSE b

\* s.includes(pat)
Includes(s, pat) ==
    \E k \in 0..(Len(s) - Len(pat)) :
        \A j \in 1..Len(pat) : s[k + j] = pat[j]

DigitChars == <<"0", "1", "2", "3", "4", "5", "6", "7", "8", "9">>

\* the decimal digits of n >= 0, as String(n) writes them
RECURSIVE Decimal(_)
Decimal(n) ==
    IF n < 10 THEN <<DigitChars[n + 1]>>
    ELSE Decimal(n \div 10) \o <<DigitChars[(n % 10) + 1]>>

\* s.match(/50[0-9]/)
Match50x(s) ==
    \E k \in 0..(Len(s) - 3) :
        /\ s[k + 1] = "5"
        /\ s[k + 2] = "0"
        /\ \E c \in 1..10 : s[k + 3] = DigitChars[c]

\* s.replace(/-/g, " ")
ReplaceHyphens(s) == [k \in 1..Len(s) |-> IF s[k] = "-" THEN " " ELSE s[k]]

MsgFailedStatus ==
    <<"F", "a", "i", "l", "e", "d", " ", "t", "o", " ", "f", "e", "t", "c",
    "h", " ", "s", "k", "e", "t", "c", "h", " ", "d", "a", "t", "a", ":",
    " ">>

MsgUnexpected ==
    <<"U", "n", "e", "x", "p", "e", "c", "t", "e", "d", " ", "r", "e", "s",
    "p", "o", "n", "s", "e", ":", " ">>

MsgNetwork ==
    <<"F", "a", "i", "l", "e", "d", " ", "t", "o", " ", "f", "e", "t", "c",
    "h">>

MsgAborted ==
    <<"T", "h", "e", " ", "u", "s", "e", "r", " ", "a", "b", "o", "r", "t",
    "e", "d", " ", "a", " ", "r", "e", "q", "u", "e", "s", "t", ".">>

MsgTimedOut ==
    <<"R", "e", "q", "u", "e", "s", "t", " ", "t", "i", "m", "e", "d", " ",
    "o", "u", "t">>

MsgJson ==
    <<"U", "n", "e", "x", "p", "e", "c", "t", "e", "d", " ", "e", "n", "d",
    " ", "o", "f", " ", "J", "S", "O", "N", " ", "i", "n", "p", "u", "t">>

PatFailedToFetch ==
    <<"F", "a", "i", "l", "e", "d", " ", "t", "o", " ", "f", "e", "t", "c",
    "h">>

PatStatus ==
    <<"s", "t", "a", "t", "u", "s">>

SiteUrl ==
    <<"h", "t", "t", "p", "s", ":", "/", "/", "s", "k", "e", "t", "c", "h",
    "p", "l", "a", "n", "a", "t", "i", "o", "n", "s", ".", "c", "o", "m",
    "/">>

-----------------------------------------------------------------------------
(* The content API's responses and the record fetchSketchData builds *)

UidA == <<"a", "-", "x">>
UidB == <<"b">>
TitleB == <<"B">>

NoBody == [uid |-> Null, title |-> Null, imageUrlOptimised |-> Null,
           imageUrl |-> Null, pageUrl |-> Null, description |-> Null,
           redbubbleUrl |-> Null, imageAlt |-> Null, publishedAt |-> Null,
           podcastUrl |-> Null, error |-> Null]

\* a response with a uid and nothing else, and one with a title as well
BodyA == [NoBody EXCEPT !.uid = UidA]
BodyB == [NoBody EXCEPT !.uid = UidB, !.title = TitleB]

\* a response without uid whose error text reads "status 503"
BodyErr == [NoBody EXCEPT !.error =
               <<"s", "t", "a", "t", "u", "s", " ", "5", "0", "3">>]

NoSketch == [uid |-> Null, title |-> Null, image |-> Null, url |-> Null,
             description |-> Null, prints |-> Null, imageAlt |-> Null,
             publishedAt |-> Null, podcastUrl |-> Null]

\* the object literal of fetchSketchData (and of init's quick check)
MapResponse(data) ==
    [uid         |-> data.uid,
     title       |-> Or(data.title, ReplaceHyphens(data.uid)),
     image       |-> Or(Or(data.imageUrlOptimised, data.imageUrl), Null),
     url         |-> Or(data.pageUrl, SiteUrl \o data.uid),
     description |-> Or(data.description, Null),
     prints      |-> Or(data.redbubbleUrl, Null),
     imageAlt    |-> Or(Or(data.imageAlt, data.title), Null),
     publishedAt |-> Or(data.publishedAt, Null),
     podcastUrl  |-> Or(data.podcastUrl, Null)]

RecA == MapResponse(BodyA)
RecB == MapResponse(BodyB)

\* JSON.stringify(data), as far as the tests on the message can tell: the
\* text of the fields present
Stringify(data) == data.uid \o data.title \o data.error

\* What one HTTP attempt comes to.  "ok": a response with res.ok and a JSON
\* body; "status": a response without res.ok; "network": fetch rejects with
\* a TypeError; "abort": the 15 s timer aborted the request; "json":
\* res.json() rejects.
Outcome(kind, status, body) == [kind |-> kind, status |-> status, body |-> body]
OkOutcome(body) == Outcome("ok", 200, body)
StatusOutcome(code) == Outcome("status", code, NoBody)
NetworkOutcome == Outcome("network", 0, NoBody)
AbortOutcome == Outcome("abort", 0, NoBody)
JsonOutcome == Outcome("json", 200, NoBody)

\* the error an attempt throws into the catch block of fetchSketchData
NoError == [name |-> "", message |-> Null]
AttemptError(o) ==
    CASE o.kind = "status" ->
            [name |-> "Error", message |-> MsgFailedStatus \o Decimal(o.status)]
      [] o.kind = "network" -> [name |-> "TypeError", message |-> MsgNetwork]
      [] o.kind = "abort" -> [name |-> "AbortError", message |-> MsgAborted]
      [] o.kind = "json" -> [name |-> "SyntaxError", message |-> MsgJson]
      [] o.kind = "ok" /\ o.body.uid = Null ->
            [name |-> "Error", message |-> MsgUnexpected \o Stringify(o.body)]
      [] OTHER -> NoError

\* the attempt returns a record
AttemptSucceeds(o) == o.kind = "ok" /\ o.body.uid # Null

IsTransientError(err) ==
    \/ err.name = "AbortError"
    \/ Includes(err.message, PatFailedToFetch)
    \/ (Includes(err.message, PatStatus) /\ Match50x(err.message))

\* the catch block retrying once more than maxRetries allows
RetriesOnceMore(retryCount, err) ==
    retryCount <= MaxRetries /\ IsTransientError(err)

\* the catch block retries
Retries(retryCount, err) == retryCount < MaxRetries /\ IsTransientError(err)

\* Math.pow(2, retryCount) * 1000
BackoffDelay(retryCount) == (2 ^ retryCount) * 1000

\* the error fetchSketchData finally throws
ThrownError(err) ==
    IF err.name = "AbortError"
    THEN [name |-> "Error", message |-> MsgTimedOut]
    ELSE err

-----------------------------------------------------------------------------
(* The recency window *)

RecentIncludes(recent, uid) == \E k \in 1..Len(recent) : recent[k] = uid

Unshift(recent, uid) == <<uid>> \o recent

\* while (recent.length > size) recent.pop()
RECURSIVE PopWhileLonger(_, _)
PopWhileLonger(recent, size) ==
    IF Len(recent) > size
    THEN PopWhileLonger(SubSeq(recent, 1, Len(recent) - 1), size)
    ELSE recent

\* rememberSketch adding at the end and dropping from the front
RememberWindowAtEnd(recent, uid) ==
    IF Len(recent) >= RecentSize
    THEN SubSeq(recent, Len(recent) - RecentSize + 2, Len(recent)) \o <<uid>>
    ELSE recent \o <<uid>>

\* the array rememberSketch writes back
RememberWindow(recent, uid) == PopWhileLonger(Unshift(recent, uid), RecentSize)

\* uids of sketches shown in earlier sessions
FillerUid(k) == <<"u">> \o Decimal(k)
FillerWindow(n) == [k \in 1..n |-> FillerUid(k)]

-----------------------------------------------------------------------------
(* The Key-Value Store (chrome.storage.local) *)

NoCache == [state |-> "", timestamp |-> 0]
NoFrequency == ""

\* obj[key] ?? defaultValue
StorageGet(value, absent, defaultValue) ==
    IF value = absent THEN defaultValue ELSE value

GetFrequency(s) == StorageGet(s.frequency, NoFrequency, DEFAULT_FREQUENCY)
GetLastFetchTime(s) == StorageGet(s.lastFetchTime, NoTime, NoTime)
GetLastSketch(s) == StorageGet(s.lastSketch, NoSketch, NoSketch)
GetRecent(s) == s.recent
GetConnectivityCache(s) == StorageGet(s.connectivityCache, NoCache, NoCache)

\* shouldUseCachedError reusing an entry of any state
ShouldUseCachedAnyState(cache, t) ==
    IF cache = NoCache THEN FALSE
    ELSE t - cache.timestamp < CacheMaxAge

ShouldUseCachedError(cache, t) ==
    IF cache = NoCache THEN FALSE
    ELSE cache.state = "service_issue" /\ t - cache.timestamp < CacheMaxAge

-----------------------------------------------------------------------------
(* The page: async flows, the DOM and the handlers *)

Slots == 1..MaxTasks

\* A flow is one run of init or of an event handler.  pc names the call it
\* awaits.  A storage call takes effect when it is issued (calls of one page
\* are served in the order issued); a read's value is then held in the
\* flow's local until the flow resumes.  calls, at and pushed record what
\* the flow did: the Fetch Client calls of its fetchNewSketch, the instant
\* its new Date() gave for lastFetchTime, and whether it called
\* rememberSketch.  probe is what became of the probe request of its
\* diagnoseConnectivity call: "" (none sent), "pending", "response",
\* "failed" or "hung".  seen is the classification that was stored at the
\* moment its fetch succeeded; since is the instant of the online event that
\* started an online handler.
IdleTask ==
    [kind |-> "idle", pc |-> "idle", frequency |-> NoFrequency,
     lastFetchTime |-> NoTime, recent |-> <<>>, window |-> <<>>, i |-> 0,
     retryCount |-> 0, data |-> NoSketch, sketchData |-> NoSketch,
     cache |-> NoCache, diag |-> "", acquired |-> "", calls |-> 0,
     at |-> 0, pushed |-> FALSE, probe |-> "", seen |-> NoCache,
     since |-> 0]

NoView == [kind |-> "blank", sketch |-> NoSketch, state |-> "", pushed |-> FALSE]
LoadingView == [NoView EXCEPT !.kind = "loading"]

Free(k) == tasks[k].kind = "idle"
FirstFree == CHOOSE k \in Slots : Free(k) /\ \A j \in Slots : Free(j) => k <= j
HasFree == \E k \in Slots : Free(k)

\* the flow ends; the finally block of a refresh handler resets the flag
Finish(k) ==
    /\ tasks' = [tasks EXCEPT ![k] = IdleTask]
    /\ isFetching' = IF tasks[k].kind \in {"handleRefresh", "errRefresh"}
                     THEN FALSE ELSE isFetching

\* renderSketch and setupInteractions
Render(sketchData, wasPushed) ==
    /\ view' = [kind |-> "sketch", sketch |-> sketchData, state |-> "",
                pushed |-> wasPushed]
    /\ refreshOnclick' = "handleRefresh"
    /\ keyListener' = TRUE

ShowErrorState(state) ==
    /\ view' = [kind |-> "error", sketch |-> NoSketch, state |-> state,
                pushed |-> FALSE]
    /\ refreshOnclick' = "errRefresh"
    /\ UNCHANGED keyListener

\* nextUniqueSketch is called: it issues getFrequency
CallNextUniqueSketch(t) ==
    [t EXCEPT !.pc = "getFrequency", !.frequency = GetFrequency(store)]

\* fetchNewSketch is called: it issues storage.get("recent", [])
CallFetchNewSketch(t) ==
    [t EXCEPT !.pc = "getRecent", !.recent = GetRecent(store)]

\* rememberSketch is called: it issues storage.get("recent", []).  The locals
\* of the acquisition are gone.
CallRememberSketch(t) ==
    [IdleTask EXCEPT !.kind = t.kind, !.pc = "getWindow",
                     !.sketchData = t.sketchData, !.acquired = t.acquired,
                     !.seen = t.seen, !.since = t.since,
                     !.window = GetRecent(store)]

\* the handlers whose success path clears the connectivity cache
ClearsCacheOnSuccess(kind) == kind \in {"init", "retry", "errRefresh"}

\* the handlers whose catch block diagnoses the failure
DiagnosesFailure(kind) == kind \in {"init", "online", "retry", "errRefresh"}

\* init: initTheme and the test-mode read are done; the online and offline
\* listeners are registered and shouldUseCachedError reads the cache
InitStart(k) ==
    /\ tasks[k].pc = "initTheme"
    /\ listeners' = TRUE
    /\ tasks' = [tasks EXCEPT ![k].pc = "shouldUseCachedError",
                              ![k].cache = GetConnectivityCache(store)]
    /\ UNCHANGED <<store, now, tz, onLine, view, refreshOnclick, keyListener,
                   isFetching, events, stamp, pf>>

\* init, line 963: a valid cached service_issue leads to the quick check
InitCacheDecision(k) ==
    /\ tasks[k].pc = "shouldUseCachedError"
    /\ IF ShouldUseCachedError(tasks[k].cache, now)
       THEN /\ tasks' = [tasks EXCEPT ![k].pc = "getConnectivityCache",
                                      ![k].cache = GetConnectivityCache(store)]
            /\ UNCHANGED view
       ELSE /\ tasks' = [tasks EXCEPT ![k] = CallNextUniqueSketch(tasks[k])]
            /\ view' = LoadingView
    /\ UNCHANGED <<store, now, tz, onLine, refreshOnclick, keyListener,
                   listeners, isFetching, events, stamp, pf>>

\* init, lines 964-977: the quick request to the content API is sent
InitQuickSend(k) ==
    /\ tasks[k].pc = "getConnectivityCache"
    /\ tasks' = [tasks EXCEPT ![k].pc = "quickFetch"]
    /\ view' = LoadingView
    /\ UNCHANGED <<store, now, tz, onLine, refreshOnclick, keyListener,
                   listeners, isFetching, events, stamp, pf>>

\* init showing the cached error and writing the entry again, as of now
InitQuickSettleRestamps(k, o) ==
    /\ tasks[k].pc = "quickFetch"
    /\ IF AttemptSucceeds(o)
       THEN /\ store' = [store EXCEPT !.connectivityCache = NoCache]
            /\ tasks' = [tasks EXCEPT ![k].pc = "clearQuick",
                                      ![k].sketchData = MapResponse(o.body),
                                      ![k].acquired = "quick",
                                      ![k].seen = store.connectivityCache]
            /\ UNCHANGED <<view, refreshOnclick, keyListener, isFetching>>
       ELSE /\ Finish(k)
            /\ IF tasks[k].cache = NoCache
               THEN UNCHANGED <<store, view, refreshOnclick, keyListener>>
               ELSE /\ ShowErrorState(tasks[k].cache.state)
                    /\ store' = [store EXCEPT !.connectivityCache =
                                    [state |-> tasks[k].cache.state,
                                     timestamp |-> now]]
    /\ UNCHANGED <<now, tz, onLine, listeners, events, stamp, pf>>

\* init, lines 980-1007: the quick request settles with outcome o
InitQuickSettle(k, o) ==
    /\ tasks[k].pc = "quickFetch"
    /\ IF AttemptSucceeds(o)
       THEN /\ store' = [store EXCEPT !.connectivityCache = NoCache]
            /\ tasks' = [tasks EXCEPT ![k].pc = "clearQuick",
                                      ![k].sketchData = MapResponse(o.body),
                                      ![k].acquired = "quick",
                                      ![k].seen = store.connectivityCache]
            /\ UNCHANGED <<view, refreshOnclick, keyListener, isFetching>>
       ELSE /\ Finish(k)
            /\ UNCHANGED store
            \* cache.state of a cache cleared meanwhile throws a TypeError
            /\ IF tasks[k].cache = NoCache
               THEN UNCHANGED <<view, refreshOnclick, keyListener>>
               ELSE ShowErrorState(tasks[k].cache.state)
    /\ UNCHANGED <<now, tz, onLine, listeners, events, stamp, pf>>

\* nextUniqueSketch, line 268
NusGetLastFetchTime(k) ==
    /\ tasks[k].pc = "getFrequency"
    /\ tasks' = [tasks EXCEPT ![k].pc = "getLastFetchTime",
                              ![k].lastFetchTime = GetLastFetchTime(store)]
    /\ UNCHANGED <<store, now, tz, onLine, view, refreshOnclick, keyListener,
                   listeners, isFetching, events, stamp, pf>>

\* nextUniqueSketch, lines 271-280: the cadence decision
NusDecide(k) ==
    /\ tasks[k].pc = "getLastFetchTime"
    /\ LET t == tasks[k] IN
       tasks' = [tasks EXCEPT ![k] =
          IF ~ShouldFetchNewSketch(t.frequency, t.lastFetchTime, now, tz)
          THEN [t EXCEPT !.pc = "getLastSketch", !.data = GetLastSketch(store)]
          ELSE CallFetchNewSketch(t)]
    /\ UNCHANGED <<store, now, tz, onLine, view, refreshOnclick, keyListener,
                   listeners, isFetching, events, stamp, pf>>

\* nextUniqueSketch fetching anew whatever the store holds
NusNeverReuses(k) ==
    /\ tasks[k].pc = "getLastSketch"
    /\ tasks' = [tasks EXCEPT ![k] =
                    CallFetchNewSketch([tasks[k] EXCEPT !.data = NoSketch])]
    /\ UNCHANGED <<store, now, tz, onLine, view, refreshOnclick, keyListener,
                   listeners, isFetching, events, stamp, pf>>

\* nextUniqueSketch, lines 274-280: reuse the last sketch if there is one
NusReuse(k) ==
    /\ tasks[k].pc = "getLastSketch"
    /\ LET t == tasks[k] IN
       tasks' = [tasks EXCEPT ![k] =
          IF t.data # NoSketch
          THEN [t EXCEPT !.pc = "returned", !.sketchData = t.data,
                         !.data = NoSketch, !.acquired = "reused"]
          ELSE CallFetchNewSketch([t EXCEPT !.data = NoSketch])]
    /\ UNCHANGED <<store, now, tz, onLine, view, refreshOnclick, keyListener,
                   listeners, isFetching, events, stamp, pf>>

\* fetchNewSketch writing lastFetchTime when it decides to fetch
FnsFirstCallStamps(k) ==
    /\ tasks[k].pc = "getRecent"
    /\ store' = [store EXCEPT !.lastFetchTime = ToISOString(now)]
    /\ tasks' = [tasks EXCEPT ![k].pc = "fetchSketchData", ![k].i = 0,
                              ![k].retryCount = 0, ![k].calls = 1]
    /\ UNCHANGED <<now, tz, onLine, view, refreshOnclick, keyListener,
                   listeners, isFetching, events, stamp, pf>>

\* fetchNewSketch, lines 284-286: the loop starts with its first call
FnsFirstCall(k) ==
    /\ tasks[k].pc = "getRecent"
    /\ tasks' = [tasks EXCEPT ![k].pc = "fetchSketchData", ![k].i = 0,
                              ![k].retryCount = 0, ![k].calls = 1]
    /\ UNCHANGED <<store, now, tz, onLine, view, refreshOnclick, keyListener,
                   listeners, isFetching, events, stamp, pf>>

\* the acceptance test with the loop bound one short, and with no bound
AcceptsOneShort(i, recent, uid) ==
    i >= DedupAttempts - 1 \/ ~RecentIncludes(recent, uid)
AcceptsUnbounded(i, recent, uid) == ~RecentIncludes(recent, uid)

\* fetchNewSketch, lines 287 and 294: a result is accepted inside the loop
\* when its uid is not in the window read at the start, and after the loop
\* whatever its uid
Accepts(i, recent, uid) == i >= DedupAttempts \/ ~RecentIncludes(recent, uid)

\* the catch blocks of the handlers, for a failure of the acquisition
Fail(k) ==
    IF DiagnosesFailure(tasks[k].kind)
    THEN IF ~onLine
         THEN \* diagnoseConnectivity returns offline at once
              /\ store' = [store EXCEPT !.connectivityCache =
                              [state |-> "offline", timestamp |-> now]]
              /\ tasks' = [tasks EXCEPT ![k].pc = "setConnectivityCache",
                                        ![k].diag = "offline"]
              /\ UNCHANGED <<view, refreshOnclick, keyListener, isFetching>>
         ELSE /\ tasks' = [tasks EXCEPT ![k].pc = "probeInternet",
                                        ![k].probe = "pending"]
              /\ UNCHANGED <<store, view, refreshOnclick, keyListener,
                             isFetching>>
    ELSE \* handleRefresh: showError(err)
         /\ ShowErrorState("offline")
         /\ Finish(k)
         /\ UNCHANGED store

\* The call under observation: when one fetchNewSketch call is followed on
\* its own, pf counts the HTTP requests it made and holds the records its
\* Fetch Client calls returned, in order.
NoPf == [op |-> "none"]
Observe(p, o) ==
    IF p.op = "fetchNewSketch"
    THEN [p EXCEPT !.requests = @ + 1,
                   !.results = IF AttemptSucceeds(o)
                               THEN Append(@, MapResponse(o.body)) ELSE @]
    ELSE p

\* When one fetchSketchData call is followed on its own, pf holds the outcomes
\* of its attempts, the backoff delays it waited, and how it settled: the
\* record it returned or the error it threw.
NoCallPf ==
    [op |-> "fetchSketchData", attempts |-> <<>>, delays |-> <<>>,
     settled |-> "", record |-> NoSketch, error |-> NoError]
ObserveCall(p, o, retryCount) ==
    IF p.op # "fetchSketchData" THEN p
    ELSE IF AttemptSucceeds(o)
    THEN [p EXCEPT !.attempts = Append(@, o), !.settled = "returned",
                   !.record = MapResponse(o.body)]
    ELSE IF Retries(retryCount, AttemptError(o))
    THEN [p EXCEPT !.attempts = Append(@, o),
                   !.delays = Append(@, BackoffDelay(retryCount))]
    ELSE [p EXCEPT !.attempts = Append(@, o), !.settled = "threw",
                   !.error = ThrownError(AttemptError(o))]

\* fetchSketchData inside fetchNewSketch: one attempt settles with outcome o
FetchSettle(k, o) ==
    /\ tasks[k].pc = "fetchSketchData"
    /\ pf' = Observe(pf, o)
    /\ IF AttemptSucceeds(o)
       THEN LET d == MapResponse(o.body) IN
            IF Accepts(tasks[k].i, tasks[k].recent, d.uid)
            THEN /\ store' = [store EXCEPT !.lastFetchTime = ToISOString(now)]
                 /\ stamp' = d
                 /\ tasks' = [tasks EXCEPT ![k].pc = "setLastFetchTime",
                                           ![k].data = d, ![k].at = now,
                                           ![k].seen = store.connectivityCache]
                 /\ UNCHANGED <<view, refreshOnclick, keyListener, isFetching>>
            ELSE /\ tasks' = [tasks EXCEPT ![k].i = @ + 1,
                                           ![k].calls = @ + 1,
                                           ![k].retryCount = 0]
                 /\ UNCHANGED <<store, stamp, view, refreshOnclick,
                                keyListener, isFetching>>
       ELSE /\ UNCHANGED stamp
            /\ IF Retries(tasks[k].retryCount, AttemptError(o))
               THEN /\ tasks' = [tasks EXCEPT ![k].pc = "backoff"]
                    /\ UNCHANGED <<store, view, refreshOnclick, keyListener,
                                   isFetching>>
               ELSE Fail(k)
    /\ UNCHANGED <<now, tz, onLine, listeners, events>>

\* fetchSketchData, lines 247-248: the backoff timer fires
BackoffEnds(k) ==
    /\ tasks[k].pc \in {"backoff", "prefetchBackoff"}
    /\ tasks' = [tasks EXCEPT ![k].retryCount = @ + 1,
                              ![k].pc = IF @ = "backoff" THEN "fetchSketchData"
                                        ELSE "prefetch"]
    /\ UNCHANGED <<store, now, tz, onLine, view, refreshOnclick, keyListener,
                   listeners, isFetching, events, stamp, pf>>

\* fetchNewSketch pushing the uid onto recent when it stores the sketch
FnsSetLastSketchPushes(k) ==
    /\ tasks[k].pc = "setLastFetchTime"
    /\ store' = [store EXCEPT !.lastSketch = tasks[k].data,
                              !.recent = Unshift(@, tasks[k].data.uid)]
    /\ tasks' = [tasks EXCEPT ![k].pc = "setLastSketch"]
    /\ UNCHANGED <<now, tz, onLine, view, refreshOnclick, keyListener,
                   listeners, isFetching, events, stamp, pf>>

\* fetchNewSketch, lines 290 and 296
FnsSetLastSketch(k) ==
    /\ tasks[k].pc = "setLastFetchTime"
    /\ store' = [store EXCEPT !.lastSketch = tasks[k].data]
    /\ tasks' = [tasks EXCEPT ![k].pc = "setLastSketch"]
    /\ UNCHANGED <<now, tz, onLine, view, refreshOnclick, keyListener,
                   listeners, isFetching, events, stamp, pf>>

\* fetchNewSketch, lines 291 and 297
FnsReturn(k) ==
    /\ tasks[k].pc = "setLastSketch"
    /\ tasks' = [tasks EXCEPT ![k].pc = "returned",
                              ![k].sketchData = tasks[k].data,
                              ![k].data = NoSketch, ![k].acquired = "fresh"]
    /\ UNCHANGED <<store, now, tz, onLine, view, refreshOnclick, keyListener,
                   listeners, isFetching, events, stamp, pf>>

\* the handler has its sketchData: it clears the connectivity cache (init,
\* Try Again, refresh on an error state) or goes on to rememberSketch
HandlerResumes(k) ==
    /\ tasks[k].pc = "returned"
    /\ IF ClearsCacheOnSuccess(tasks[k].kind)
       THEN /\ store' = [store EXCEPT !.connectivityCache = NoCache]
            /\ tasks' = [tasks EXCEPT ![k] =
                  [IdleTask EXCEPT !.kind = tasks[k].kind,
                                   !.pc = "clearConnectivityCache",
                                   !.sketchData = tasks[k].sketchData,
                                   !.acquired = tasks[k].acquired,
                                   !.seen = tasks[k].seen,
                                   !.since = tasks[k].since]]
       ELSE /\ tasks' = [tasks EXCEPT ![k] = CallRememberSketch(@)]
            /\ UNCHANGED store
    /\ UNCHANGED <<now, tz, onLine, view, refreshOnclick, keyListener,
                   listeners, isFetching, events, stamp, pf>>

\* the cache is cleared; rememberSketch is called
RememberStart(k) ==
    /\ tasks[k].pc \in {"clearConnectivityCache", "clearQuick"}
    /\ tasks' = [tasks EXCEPT ![k] = CallRememberSketch(@)]
    /\ UNCHANGED <<store, now, tz, onLine, view, refreshOnclick, keyListener,
                   listeners, isFetching, events, stamp, pf>>

\* rememberSketch, lines 303-305
RememberWrite(k) ==
    /\ tasks[k].pc = "getWindow"
    /\ store' = [store EXCEPT !.recent =
                    RememberWindow(tasks[k].window, tasks[k].sketchData.uid)]
    /\ tasks' = [tasks EXCEPT ![k].pc = "setRecent", ![k].pushed = TRUE]
    /\ UNCHANGED <<now, tz, onLine, view, refreshOnclick, keyListener,
                   listeners, isFetching, events, stamp, pf>>

\* renderOrRedirect, lines 676-678: render, then the prefetch call
RenderOrRedirect(k) ==
    /\ tasks[k].pc = "setRecent"
    /\ Render(tasks[k].sketchData, tasks[k].pushed)
    /\ tasks' = [tasks EXCEPT ![k].pc = "prefetch", ![k].retryCount = 0]
    /\ UNCHANGED <<store, now, tz, onLine, listeners, isFetching, events,
                   stamp, pf>>

\* fetchSketchData storing the record it returns as lastSketch
PrefetchSettleStores(k, o) ==
    /\ tasks[k].pc = "prefetch"
    /\ pf' = ObserveCall(pf, o, tasks[k].retryCount)
    /\ IF ~AttemptSucceeds(o) /\ Retries(tasks[k].retryCount, AttemptError(o))
       THEN /\ tasks' = [tasks EXCEPT ![k].pc = "prefetchBackoff"]
            /\ UNCHANGED <<isFetching, store>>
       ELSE /\ Finish(k)
            /\ store' = IF AttemptSucceeds(o)
                        THEN [store EXCEPT !.lastSketch = MapResponse(o.body)]
                        ELSE store
    /\ UNCHANGED <<now, tz, onLine, view, refreshOnclick, keyListener,
                   listeners, events, stamp>>

\* renderOrRedirect letting a failure of the prefetch call reach showError
PrefetchSettleShowsError(k, o) ==
    /\ tasks[k].pc = "prefetch"
    /\ pf' = ObserveCall(pf, o, tasks[k].retryCount)
    /\ IF ~AttemptSucceeds(o) /\ Retries(tasks[k].retryCount, AttemptError(o))
       THEN /\ tasks' = [tasks EXCEPT ![k].pc = "prefetchBackoff"]
            /\ UNCHANGED <<isFetching, view, refreshOnclick, keyListener>>
       ELSE /\ Finish(k)
            /\ IF AttemptSucceeds(o)
               THEN UNCHANGED <<view, refreshOnclick, keyListener>>
               ELSE ShowErrorState("offline")
    /\ UNCHANGED <<store, now, tz, onLine, listeners, events, stamp>>

\* renderOrRedirect, lines 678-683: an attempt of the prefetch call settles
PrefetchSettle(k, o) ==
    /\ tasks[k].pc = "prefetch"
    /\ pf' = ObserveCall(pf, o, tasks[k].retryCount)
    /\ IF ~AttemptSucceeds(o) /\ Retries(tasks[k].retryCount, AttemptError(o))
       THEN /\ tasks' = [tasks EXCEPT ![k].pc = "prefetchBackoff"]
            /\ UNCHANGED isFetching
       ELSE Finish(k)
    /\ UNCHANGED <<store, now, tz, onLine, view, refreshOnclick, keyListener,
                   listeners, events, stamp>>

\* fetchSketchData, lines 206-213: the response arrives, so the 15 s timer is
\* cleared, and its body never completes: res.json() stays pending
StallOutcome == Outcome("stall", 200, NoBody)
BodyStalls(k) ==
    /\ tasks[k].pc = "prefetch"
    /\ tasks' = [tasks EXCEPT ![k].pc = "resJson"]
    /\ pf' = IF pf.op = "fetchSketchData"
             THEN [pf EXCEPT !.attempts = Append(@, StallOutcome)] ELSE pf
    /\ UNCHANGED <<store, now, tz, onLine, view, refreshOnclick, keyListener,
                   listeners, isFetching, events, stamp>>

\* diagnoseConnectivity classifying service_issue whatever the probe did
ProbeSettleSameState(k, reached) ==
    /\ tasks[k].pc = "probeInternet"
    /\ store' = [store EXCEPT !.connectivityCache =
                    [state |-> "service_issue", timestamp |-> now]]
    /\ tasks' = [tasks EXCEPT ![k].pc = "setConnectivityCache",
                              ![k].diag = "service_issue",
                              ![k].probe = IF reached THEN "response"
                                           ELSE "failed"]
    /\ UNCHANGED <<now, tz, onLine, view, refreshOnclick, keyListener,
                   listeners, isFetching, events, stamp, pf>>

\* diagnoseConnectivity, lines 58-65, and setConnectivityCache: the probe
\* got a response (reached) or failed
ProbeSettle(k, reached) ==
    /\ tasks[k].pc = "probeInternet"
    /\ LET state == IF reached THEN "service_issue" ELSE "offline" IN
       /\ store' = [store EXCEPT !.connectivityCache =
                       [state |-> state, timestamp |-> now]]
       /\ tasks' = [tasks EXCEPT ![k].pc = "setConnectivityCache",
                                 ![k].diag = state,
                                 ![k].probe = IF reached THEN "response"
                                              ELSE "failed"]
    /\ UNCHANGED <<now, tz, onLine, view, refreshOnclick, keyListener,
                   listeners, isFetching, events, stamp, pf>>

\* probeInternet, lines 37-43: the probe request gets no response and no
\* network error, now or later
ProbeHangs(k) ==
    /\ tasks[k].pc = "probeInternet"
    /\ tasks' = [tasks EXCEPT ![k].pc = "probeHung", ![k].probe = "hung"]
    /\ UNCHANGED <<store, now, tz, onLine, view, refreshOnclick, keyListener,
                   listeners, isFetching, events, stamp, pf>>

\* withTimeout, lines 30-32: after 4000 ms the timer calls ctrl.abort(label).
\* The controller's signal was given to no request, and the promise returned
\* is promise.finally(...), which settles only when the request does.
ProbeTimerFires(k) ==
    /\ tasks[k].pc = "probeHung"
    /\ tasks' = [tasks EXCEPT ![k].pc = "probeAborted"]
    /\ UNCHANGED <<store, now, tz, onLine, view, refreshOnclick, keyListener,
                   listeners, isFetching, events, stamp, pf>>

\* the catch blocks, after setConnectivityCache: showErrorState(diagnosis.state)
ShowDiagnosis(k) ==
    /\ tasks[k].pc = "setConnectivityCache"
    /\ ShowErrorState(tasks[k].diag)
    /\ Finish(k)
    /\ UNCHANGED <<store, now, tz, onLine, listeners, events, stamp, pf>>

\* the online listener, lines 945-947
OnlineStart(k) ==
    /\ tasks[k].pc = "clearOnline"
    /\ view' = LoadingView
    /\ tasks' = [tasks EXCEPT ![k] = CallNextUniqueSketch(@)]
    /\ UNCHANGED <<store, now, tz, onLine, refreshOnclick, keyListener,
                   listeners, isFetching, events, stamp, pf>>

\* the showCached handler, lines 620-622
ShowCachedRender(k) ==
    /\ tasks[k].pc = "getCachedSketch"
    /\ IF tasks[k].data # NoSketch
       THEN Render(tasks[k].data, tasks[k].pushed)
       ELSE UNCHANGED <<view, refreshOnclick, keyListener>>
    /\ Finish(k)
    /\ UNCHANGED <<store, now, tz, onLine, listeners, events, stamp, pf>>

-----------------------------------------------------------------------------
(* Events: the user, the browser and the clock *)

\* a new flow of the given kind takes the first free slot
Spawn(t) == [tasks EXCEPT ![FirstFree] = t]

\* the handlers a refresh trigger can run: refreshBtn.onclick (a click, or
\* the n and ArrowRight shortcuts once setupInteractions has run) and the
\* keydown listener of setupInteractions (Enter or Space on the button)
RefreshHandlers ==
    ({refreshOnclick} \ {"none"})
        \cup (IF keyListener THEN {"handleRefresh"} ELSE {})

\* When the refresh triggers of the page are counted, pf holds their number
\* and whether a refresh was in flight when the last one came.
NoTriggerPf == [op |-> "refreshTrigger", triggers |-> 0, inFlight |-> FALSE]
ObserveTrigger(p) ==
    IF p.op = "refreshTrigger"
    THEN [p EXCEPT !.triggers = @ + 1, !.inFlight = isFetching]
    ELSE p

\* a refresh handler without the in-flight test
RefreshTriggerUnguarded(h) ==
    /\ events < MaxEvents
    /\ h \in RefreshHandlers
    /\ events' = events + 1
    /\ pf' = ObserveTrigger(pf)
    /\ HasFree
    /\ isFetching' = TRUE
    /\ view' = LoadingView
    /\ tasks' = Spawn(CallFetchNewSketch([IdleTask EXCEPT !.kind = h]))
    /\ UNCHANGED <<store, now, tz, onLine, refreshOnclick, keyListener,
                   listeners, stamp>>

\* handleRefresh, lines 376-385, and the refresh handler of showErrorState,
\* lines 629-638
RefreshTrigger(h) ==
    /\ events < MaxEvents
    /\ h \in RefreshHandlers
    /\ events' = events + 1
    /\ pf' = ObserveTrigger(pf)
    /\ IF isFetching
       THEN UNCHANGED <<tasks, isFetching, view>>
       ELSE /\ HasFree
            /\ isFetching' = TRUE
            /\ view' = LoadingView
            /\ tasks' = Spawn(CallFetchNewSketch([IdleTask EXCEPT !.kind = h]))
    /\ UNCHANGED <<store, now, tz, onLine, refreshOnclick, keyListener,
                   listeners, stamp>>

\* a Try Again handler that asks nextUniqueSketch, and so the cadence
ClickRetryByCadence ==
    /\ events < MaxEvents
    /\ view.kind = "error"
    /\ HasFree
    /\ events' = events + 1
    /\ view' = LoadingView
    /\ tasks' = Spawn(CallNextUniqueSketch([IdleTask EXCEPT !.kind = "retry"]))
    /\ UNCHANGED <<store, now, tz, onLine, refreshOnclick, keyListener,
                   listeners, isFetching, stamp, pf>>

\* the Try Again button of an error state, lines 600-603
ClickRetry ==
    /\ events < MaxEvents
    /\ view.kind = "error"
    /\ HasFree
    /\ events' = events + 1
    /\ view' = LoadingView
    /\ tasks' = Spawn(CallFetchNewSketch([IdleTask EXCEPT !.kind = "retry"]))
    /\ UNCHANGED <<store, now, tz, onLine, refreshOnclick, keyListener,
                   listeners, isFetching, stamp, pf>>

\* showErrorState, lines 512-525: the button is there unless showSketch
HasShowCachedButton == view.kind = "error" /\ view.state = "service_issue"

\* the "Show last sketch" button, lines 618-619
ClickShowCached ==
    /\ events < MaxEvents
    /\ HasShowCachedButton
    /\ HasFree
    /\ events' = events + 1
    /\ tasks' = Spawn([IdleTask EXCEPT !.kind = "showCached",
                                       !.pc = "getCachedSketch",
                                       !.data = GetLastSketch(store)])
    /\ UNCHANGED <<store, now, tz, onLine, view, refreshOnclick, keyListener,
                   listeners, isFetching, stamp, pf>>

\* the browser goes offline: the offline listener, lines 957-960
OfflineEvent ==
    /\ events < MaxEvents
    /\ onLine
    /\ onLine' = FALSE
    /\ events' = events + 1
    /\ IF listeners THEN ShowErrorState("offline")
       ELSE UNCHANGED <<view, refreshOnclick, keyListener>>
    /\ UNCHANGED <<store, now, tz, tasks, listeners, isFetching, stamp, pf>>

\* the online listener going on to nextUniqueSketch with the cache as it is
OnlineEventKeepsCache ==
    /\ events < MaxEvents
    /\ ~onLine
    /\ onLine' = TRUE
    /\ events' = events + 1
    /\ IF listeners
       THEN /\ HasFree
            /\ tasks' = Spawn([IdleTask EXCEPT !.kind = "online",
                                               !.pc = "clearOnline",
                                               !.since = now])
            /\ UNCHANGED store
       ELSE UNCHANGED <<store, tasks>>
    /\ UNCHANGED <<now, tz, view, refreshOnclick, keyListener, listeners,
                   isFetching, stamp, pf>>

\* the browser comes back online: the online listener, lines 941-943
OnlineEvent ==
    /\ events < MaxEvents
    /\ ~onLine
    /\ onLine' = TRUE
    /\ events' = events + 1
    /\ IF listeners
       THEN /\ HasFree
            /\ store' = [store EXCEPT !.connectivityCache = NoCache]
            /\ tasks' = Spawn([IdleTask EXCEPT !.kind = "online",
                                               !.pc = "clearOnline",
                                               !.since = now])
       ELSE UNCHANGED <<store, tasks>>
    /\ UNCHANGED <<now, tz, view, refreshOnclick, keyListener, listeners,
                   isFetching, stamp, pf>>

\* the script starts on a fresh page: init() is called.  The store is all
\* that survives a page.
FreshTasks ==
    [k \in Slots |->
        IF k = 1 THEN [IdleTask EXCEPT !.kind = "init", !.pc = "initTheme"]
        ELSE IdleTask]

FreshPage ==
    /\ tasks = FreshTasks
    /\ view = NoView
    /\ refreshOnclick = "none"
    /\ keyListener = FALSE
    /\ listeners = FALSE
    /\ isFetching = FALSE

\* the tab is reloaded, or closed (or crashes) and a new tab is opened: every
\* flow in flight is dropped where it stands
Reload ==
    /\ events < MaxEvents
    /\ events' = events + 1
    /\ tasks' = FreshTasks
    /\ view' = NoView
    /\ refreshOnclick' = "none"
    /\ keyListener' = FALSE
    /\ listeners' = FALSE
    /\ isFetching' = FALSE
    /\ UNCHANGED <<store, now, tz, onLine, stamp, pf>>

\* the instants of the model's clock, from MainStart on
MainStart == 23 * HourMs + HourMs \div 2
MainTimes == {MainStart, MainStart + HourMs}

Tick ==
    /\ \E t \in MainTimes : t > now /\ now' = t
    /\ UNCHANGED <<store, tz, onLine, tasks, view, refreshOnclick, keyListener,
                   listeners, isFetching, events, stamp, pf>>

-----------------------------------------------------------------------------
(* The page from a page load on *)

Frequencies == {FREQUENCY_DAILY, FREQUENCY_HOURLY, FREQUENCY_EACH_TAB}

\* the store of a fresh install, and stores left by earlier sessions: a
\* sketch fetched half an hour ago, with a short or a full recency window
FreshStore ==
    [frequency |-> NoFrequency, lastFetchTime |-> NoTime,
     lastSketch |-> NoSketch, recent |-> <<>>, connectivityCache |-> NoCache]

UsedStore(frequency, recent) ==
    [frequency |-> frequency,
     lastFetchTime |-> ToISOString(MainStart - HourMs \div 2),
     lastSketch |-> RecA, recent |-> recent, connectivityCache |-> NoCache]

\* the store left by a page that diagnosed a service issue 90 s ago
CachedIssueStore ==
    [UsedStore(FREQUENCY_DAILY, <<UidA>>) EXCEPT !.connectivityCache =
        [state |-> "service_issue", timestamp |-> MainStart - 90 * 1000]]

InitStores ==
    {FreshStore, UsedStore(FREQUENCY_DAILY, <<UidA>>),
     UsedStore(FREQUENCY_HOURLY, <<UidA>>),
     UsedStore(FREQUENCY_EACH_TAB, <<UidA>> \o FillerWindow(RecentSize - 1)),
     CachedIssueStore}

\* what an HTTP request to the content API comes to on the page: a sketch,
\* or a response without uid
PageOutcomes == {OkOutcome(BodyA), OkOutcome(BodyB), OkOutcome(NoBody)}

Init ==
    /\ store \in InitStores
    /\ now = MainStart
    /\ tz = 0
    /\ onLine = TRUE
    /\ FreshPage
    /\ events = 0
    /\ stamp = store.lastSketch
    /\ pf = NoPf

Step(k) ==
    \/ InitStart(k)
    \/ InitCacheDecision(k)
    \/ InitQuickSend(k)
    \/ \E o \in PageOutcomes : InitQuickSettle(k, o)
    \/ NusGetLastFetchTime(k)
    \/ NusDecide(k)
    \/ NusReuse(k)
    \/ FnsFirstCall(k)
    \/ \E o \in PageOutcomes : FetchSettle(k, o)
    \/ FnsSetLastSketch(k)
    \/ FnsReturn(k)
    \/ HandlerResumes(k)
    \/ RememberStart(k)
    \/ RememberWrite(k)
    \/ RenderOrRedirect(k)
    \/ \E o \in PageOutcomes : PrefetchSettle(k, o)
    \/ \E reached \in BOOLEAN : ProbeSettle(k, reached)
    \/ ShowDiagnosis(k)
    \/ OnlineStart(k)
    \/ ShowCachedRender(k)

Next ==
    \/ \E k \in Slots : Step(k)
    \/ \E h \in {"handleRefresh", "errRefresh"} : RefreshTrigger(h)
    \/ ClickRetry
    \/ ClickShowCached
    \/ OfflineEvent
    \/ OnlineEvent
    \/ Reload
    \/ Tick

Spec == Init /\ [][Next]_vars

\* the same page with its refresh triggers counted
InitTriggers ==
    /\ store \in InitStores
    /\ now = MainStart
    /\ tz = 0
    /\ onLine = TRUE
    /\ FreshPage
    /\ events = 0
    /\ stamp = store.lastSketch
    /\ pf = NoTriggerPf

SpecTriggers == InitTriggers /\ [][Next]_vars

-----------------------------------------------------------------------------
(* One fetchNewSketch call on its own, for any store and any network *)

\* every kind of outcome of an HTTP attempt
FetchOutcomes ==
    {OkOutcome(BodyA), OkOutcome(BodyB), OkOutcome(NoBody), StatusOutcome(503),
     StatusOutcome(404), NetworkOutcome, AbortOutcome}

FetchWindows ==
    {<<>>, <<UidA>>, <<UidB, UidA>>, <<UidA>> \o FillerWindow(RecentSize - 1)}

InitFetch ==
    /\ store \in {[UsedStore(FREQUENCY_EACH_TAB, r) EXCEPT !.lastSketch = s] :
                     r \in FetchWindows, s \in {NoSketch, RecA}}
    /\ now = MainStart
    /\ tz = 0
    /\ onLine = TRUE
    /\ tasks = [k \in Slots |->
                  IF k = 1
                  THEN CallFetchNewSketch([IdleTask EXCEPT !.kind = "handleRefresh"])
                  ELSE IdleTask]
    /\ view = LoadingView
    /\ refreshOnclick = "handleRefresh"
    /\ keyListener = TRUE
    /\ listeners = TRUE
    /\ isFetching = TRUE
    /\ events = 0
    /\ stamp = store.lastSketch
    /\ pf = [op |-> "fetchNewSketch", requests |-> 0, results |-> <<>>]

NextFetch ==
    \/ FnsFirstCall(1)
    \/ \E o \in FetchOutcomes : FetchSettle(1, o)
    \/ BackoffEnds(1)
    \/ FnsSetLastSketch(1)
    \/ FnsReturn(1)

SpecFetch == InitFetch /\ [][NextFetch]_vars

-----------------------------------------------------------------------------
(* One fetchSketchData call on its own: the call renderOrRedirect makes *)

\* every kind of outcome of an HTTP attempt that ends
ClientOutcomes ==
    {OkOutcome(BodyA), OkOutcome(BodyB), OkOutcome(NoBody), OkOutcome(BodyErr),
     StatusOutcome(500), StatusOutcome(503), StatusOutcome(599),
     StatusOutcome(404), NetworkOutcome, AbortOutcome, JsonOutcome}

InitClient ==
    /\ store \in InitStores
    /\ now = MainStart
    /\ tz = 0
    /\ onLine = TRUE
    /\ tasks = [k \in Slots |->
                  IF k = 1
                  THEN [IdleTask EXCEPT !.kind = "init", !.pc = "prefetch",
                                        !.sketchData = RecA, !.pushed = TRUE]
                  ELSE IdleTask]
    /\ view = [kind |-> "sketch", sketch |-> RecA, state |-> "",
               pushed |-> TRUE]
    /\ refreshOnclick = "handleRefresh"
    /\ keyListener = TRUE
    /\ listeners = TRUE
    /\ isFetching = FALSE
    /\ events = 0
    /\ stamp = store.lastSketch
    /\ pf = NoCallPf

NextClient ==
    \/ \E o \in ClientOutcomes : PrefetchSettle(1, o)
    \/ BodyStalls(1)
    \/ BackoffEnds(1)

SpecClient == InitClient /\ [][NextClient]_vars /\ WF_vars(NextClient)

-----------------------------------------------------------------------------
(* The diagnosis of a failed acquisition, in each handler that diagnoses *)

DiagnosingKinds == {"init", "online", "retry", "errRefresh"}

\* the last attempt of the handler's Fetch Client call is in flight
InitDiagnose ==
    /\ store \in InitStores
    /\ now \in MainTimes
    /\ tz = 0
    /\ onLine \in BOOLEAN
    /\ \E kind \in DiagnosingKinds :
          /\ tasks = [k \in Slots |->
                        IF k = 1
                        THEN [CallFetchNewSketch([IdleTask EXCEPT !.kind = kind])
                                 EXCEPT !.pc = "fetchSketchData",
                                        !.retryCount = MaxRetries, !.calls = 1]
                        ELSE IdleTask]
          /\ isFetching = (kind = "errRefresh")
          /\ refreshOnclick = IF kind = "init" THEN "none" ELSE "errRefresh"
    /\ view = LoadingView
    /\ keyListener = FALSE
    /\ listeners = TRUE
    /\ events = 0
    /\ stamp = store.lastSketch
    /\ pf = NoPf

FailingOutcomes ==
    {OkOutcome(NoBody), StatusOutcome(503), NetworkOutcome, AbortOutcome}

NextDiagnose ==
    \/ \E o \in FailingOutcomes : FetchSettle(1, o)
    \/ \E reached \in BOOLEAN : ProbeSettle(1, reached)
    \/ ProbeHangs(1)
    \/ ProbeTimerFires(1)
    \/ ShowDiagnosis(1)

SpecDiagnose == InitDiagnose /\ [][NextDiagnose]_vars /\ WF_vars(NextDiagnose)

-----------------------------------------------------------------------------
(* The refresh button on a page at rest: a sketch is rendered, or an error
   state is shown, and no flow is in flight *)

\* the store once the sketch RecA has been rendered, and once a first load
\* has failed and been classified
RenderedStore(frequency, recent) ==
    [UsedStore(frequency, recent) EXCEPT !.recent = RememberWindow(@, UidA)]
ClassifiedStore(s, state) ==
    [s EXCEPT !.connectivityCache = [state |-> state, timestamp |-> MainStart]]

InitRefresh ==
    /\ \/ /\ store \in {RenderedStore(FREQUENCY_DAILY, <<UidA>>),
                        RenderedStore(FREQUENCY_EACH_TAB, <<UidB, UidA>>)}
          /\ view = [kind |-> "sketch", sketch |-> RecA, state |-> "",
                     pushed |-> TRUE]
          /\ refreshOnclick = "handleRefresh"
          /\ keyListener = TRUE
       \/ /\ \E state \in {"offline", "service_issue"} :
                /\ store \in {ClassifiedStore(FreshStore, state),
                              ClassifiedStore(
                                  UsedStore(FREQUENCY_EACH_TAB, <<UidA>>), state)}
                /\ view = [kind |-> "error", sketch |-> NoSketch,
                           state |-> state, pushed |-> FALSE]
          /\ refreshOnclick = "errRefresh"
          /\ keyListener = FALSE
    /\ now = MainStart
    /\ tz = 0
    /\ onLine \in BOOLEAN
    /\ tasks = [k \in Slots |-> IdleTask]
    /\ listeners = TRUE
    /\ isFetching = FALSE
    /\ events = 0
    /\ stamp = store.lastSketch
    /\ pf = NoTriggerPf

RefreshOutcomes ==
    {OkOutcome(BodyA), OkOutcome(BodyB), OkOutcome(NoBody), StatusOutcome(503)}

\* the steps of the refresh flow, which is in slot 1
RefreshFlow ==
    \/ FnsFirstCall(1)
    \/ \E o \in RefreshOutcomes : FetchSettle(1, o)
    \/ BackoffEnds(1)
    \/ FnsSetLastSketch(1)
    \/ FnsReturn(1)
    \/ HandlerResumes(1)
    \/ RememberStart(1)
    \/ RememberWrite(1)
    \/ RenderOrRedirect(1)
    \/ \E o \in RefreshOutcomes : PrefetchSettle(1, o)
    \/ BodyStalls(1)
    \/ \E reached \in BOOLEAN : ProbeSettle(1, reached)
    \/ ProbeHangs(1)
    \/ ProbeTimerFires(1)
    \/ ShowDiagnosis(1)

NextRefresh ==
    \/ \E h \in {"handleRefresh", "errRefresh"} : RefreshTrigger(h)
    \/ RefreshFlow

\* the flow goes on as long as one of its awaited calls can settle; the user
\* need not click
SpecRefresh == InitRefresh /\ [][NextRefresh]_vars /\ WF_vars(RefreshFlow)

-----------------------------------------------------------------------------
(* shouldUseCachedError on its own, for any cache entry and clock *)

\* the instants a cache entry was written at, and its age at the call
CacheWriteTimes == {MainStart, MainStart + 1, MainStart + HourMs}
CacheAges ==
    {0 - 1000, 0, 1, 60 * 1000, 90 * 1000, CacheMaxAge - 1, CacheMaxAge,
     121 * 1000, 10 * 60 * 1000, HourMs}

\* pf.written is the instant the entry was written at, -1 for no entry
InitCachedError ==
    /\ \E written \in CacheWriteTimes \cup {-1}, age \in CacheAges,
          state \in {"service_issue", "offline"} :
          /\ now = (IF written = -1 THEN MainStart ELSE written) + age
          /\ store = [FreshStore EXCEPT !.connectivityCache =
                         IF written = -1 THEN NoCache
                         ELSE [state |-> state, timestamp |-> written]]
          /\ pf = [op |-> "arguments", written |-> written, res |-> FALSE]
    /\ tz = 0
    /\ onLine = TRUE
    /\ tasks = [k \in Slots |-> IdleTask]
    /\ view = NoView
    /\ refreshOnclick = "none"
    /\ keyListener = FALSE
    /\ listeners = FALSE
    /\ isFetching = FALSE
    /\ events = 0
    /\ stamp = NoSketch

\* await shouldUseCachedError()
EvalShouldUseCachedError ==
    /\ pf.op = "arguments"
    /\ pf' = [pf EXCEPT !.op = "shouldUseCachedError",
                        !.res = ShouldUseCachedError(
                                    GetConnectivityCache(store), now)]
    /\ UNCHANGED <<store, now, tz, onLine, tasks, view, refreshOnclick,
                   keyListener, listeners, isFetching, events, stamp>>

NextCachedError == EvalShouldUseCachedError

SpecCachedError == InitCachedError /\ [][NextCachedError]_vars

-----------------------------------------------------------------------------
(* The two backends of the storage object, for any key, default and value *)

\* JSON values: t is the type, n the number (1 for true), s the text of a
\* string or the strings of an array
JNull == [t |-> "null", n |-> 0, s |-> <<>>]
JUndefined == [t |-> "undefined", n |-> 0, s |-> <<>>]
JBool(b) == [t |-> "bool", n |-> IF b THEN 1 ELSE 0, s |-> <<>>]
JNum(n) == [t |-> "num", n |-> n, s |-> <<>>]
JStr(text) == [t |-> "str", n |-> 0, s |-> <<text>>]
JArr(strings) == [t |-> "arr", n |-> 0, s |-> strings]

Quote == "\""
Quoted(text) == <<Quote>> \o text \o <<Quote>>

RECURSIVE JoinQuoted(_)
JoinQuoted(strings) ==
    IF Len(strings) = 0 THEN <<>>
    ELSE IF Len(strings) = 1 THEN Quoted(strings[1])
    ELSE Quoted(strings[1]) \o <<",">> \o JoinQuoted(Tail(strings))

\* JSON.stringify(val)
JsonStringify(val) ==
    CASE val.t = "null" -> <<"n", "u", "l", "l">>
      [] val.t = "bool" -> IF val.n = 1 THEN <<"t", "r", "u", "e">>
                           ELSE <<"f", "a", "l", "s", "e">>
      [] val.t = "num"  -> Decimal(val.n)
      [] val.t = "str"  -> Quoted(val.s[1])
      [] val.t = "arr"  -> <<"[">> \o JoinQuoted(val.s) \o <<"]">>

DigitValue(c) == CHOOSE d \in 0..9 : DigitChars[d + 1] = c

RECURSIVE ParseDecimal(_)
ParseDecimal(text) ==
    IF Len(text) = 0 THEN 0
    ELSE 10 * ParseDecimal(SubSeq(text, 1, Len(text) - 1))
             + DigitValue(text[Len(text)])

Unquoted(text) == SubSeq(text, 2, Len(text) - 1)

\* the quoted strings of text, which are separated by commas
RECURSIVE ParseStrings(_)
ParseStrings(text) ==
    IF Len(text) = 0 THEN <<>>
    ELSE IF \E i \in 1..Len(text) : text[i] = ","
    THEN LET i == CHOOSE i \in 1..Len(text) :
                     /\ text[i] = ","
                     /\ \A j \in 1..(i - 1) : text[j] # ","
         IN  <<Unquoted(SubSeq(text, 1, i - 1))>>
                 \o ParseStrings(SubSeq(text, i + 1, Len(text)))
    ELSE <<Unquoted(text)>>

\* JSON.parse(text), for the text of a value
JsonParse(text) ==
    CASE text[1] = "n" -> JNull
      [] text[1] = "t" -> JBool(TRUE)
      [] text[1] = "f" -> JBool(FALSE)
      [] text[1] = Quote -> JStr(Unquoted(text))
      [] text[1] = "[" -> JArr(ParseStrings(Unquoted(text)))
      [] OTHER -> JNum(ParseDecimal(text))

\* localStorage.getItem of a key never set gives null
NoItem == [present |-> FALSE, text |-> <<>>]
Item(text) == [present |-> TRUE, text |-> text]

\* storage.get, lines 111-112: obj[key] ?? defaultValue
ChromeGet(area, key, defaultValue) ==
    IF area[key] \in {JNull, JUndefined} THEN defaultValue ELSE area[key]

\* storage.set, line 120
ChromeSet(area, key, val) == [area EXCEPT ![key] = val]

\* storage.get, lines 108-109: stored ? JSON.parse(stored) : defaultValue
LocalGet(items, key, defaultValue) ==
    LET stored == items[key] IN
    IF stored.present /\ Len(stored.text) > 0 THEN JsonParse(stored.text)
    ELSE defaultValue

\* storage.set, line 117
LocalSet(items, key, val) == [items EXCEPT ![key] = Item(JsonStringify(val))]

StorageKeys == {"recent", "connectivityCache"}

JsonValues ==
    {JNull, JBool(FALSE), JBool(TRUE), JNum(0), JNum(1730000000),
     JStr(<<>>), JStr(<<"d", "a", "i", "l", "y">>), JArr(<<>>),
     JArr(<<UidA>>), JArr(<<UidB, UidA>>)}

StorageDefaults == {JNull, JBool(FALSE), JStr(<<"d", "a", "i", "l", "y">>),
                    JArr(<<>>)}

\* pf holds the arguments, the two backends and what get returned on each
InitStorage ==
    /\ pf \in {[op |-> "storage", step |-> "start", key |-> key,
                 defaultValue |-> d, val |-> val,
                 area |-> [k \in StorageKeys |-> JUndefined],
                 items |-> [k \in StorageKeys |-> NoItem],
                 resChrome |-> JUndefined, resLocal |-> JUndefined] :
                key \in StorageKeys, d \in StorageDefaults,
                val \in JsonValues}
    /\ store = FreshStore
    /\ now = MainStart
    /\ tz = 0
    /\ onLine = TRUE
    /\ tasks = [k \in Slots |-> IdleTask]
    /\ view = NoView
    /\ refreshOnclick = "none"
    /\ keyListener = FALSE
    /\ listeners = FALSE
    /\ isFetching = FALSE
    /\ events = 0
    /\ stamp = NoSketch

\* await storage.set(key, val), on each backend
EvalStorageSet ==
    /\ pf.step = "start"
    /\ pf' = [pf EXCEPT !.step = "set",
                        !.area = ChromeSet(@, pf.key, pf.val),
                        !.items = LocalSet(@, pf.key, pf.val)]
    /\ UNCHANGED <<store, now, tz, onLine, tasks, view, refreshOnclick,
                   keyListener, listeners, isFetching, events, stamp>>

\* await storage.get(key, defaultValue), on each backend
EvalStorageGet ==
    /\ pf.step \in {"start", "set"}
    /\ pf' = [pf EXCEPT
                 !.step = IF @ = "start" THEN "gotUnwritten" ELSE "gotWritten",
                 !.resChrome = ChromeGet(pf.area, pf.key, pf.defaultValue),
                 !.resLocal = LocalGet(pf.items, pf.key, pf.defaultValue)]
    /\ UNCHANGED <<store, now, tz, onLine, tasks, view, refreshOnclick,
                   keyListener, listeners, isFetching, events, stamp>>

NextStorage == EvalStorageSet \/ EvalStorageGet

SpecStorage == InitStorage /\ [][NextStorage]_vars

-----------------------------------------------------------------------------
(* The record built from a response, for any response with a uid *)

ResponseUids == {UidA, UidB, <<"a", "-", "b", "-", "c">>}

ResponseBodies ==
    {[NoBody EXCEPT !.uid = uid, !.title = title, !.imageAlt = imageAlt,
                    !.pageUrl = pageUrl, !.imageUrlOptimised = optimised,
                    !.imageUrl = imageUrl] :
        uid \in ResponseUids, title \in {Null, TitleB},
        imageAlt \in {Null, <<"a", "l", "t">>},
        pageUrl \in {Null, <<"h", "t", "t", "p", ":", "/", "/", "p">>},
        optimised \in {Null, <<"o">>}, imageUrl \in {Null, <<"i">>}}

InitRecord ==
    /\ pf \in {[op |-> "arguments", data |-> data, res |-> NoSketch] :
                  data \in ResponseBodies}
    /\ store = FreshStore
    /\ now = MainStart
    /\ tz = 0
    /\ onLine = TRUE
    /\ tasks = [k \in Slots |-> IdleTask]
    /\ view = NoView
    /\ refreshOnclick = "none"
    /\ keyListener = FALSE
    /\ listeners = FALSE
    /\ isFetching = FALSE
    /\ events = 0
    /\ stamp = NoSketch

\* fetchSketchData, lines 219-229: the record is built from the body
EvalMapResponse ==
    /\ pf.op = "arguments"
    /\ pf' = [pf EXCEPT !.op = "MapResponse", !.res = MapResponse(pf.data)]
    /\ UNCHANGED <<store, now, tz, onLine, tasks, view, refreshOnclick,
                   keyListener, listeners, isFetching, events, stamp>>

NextRecord == EvalMapResponse

SpecRecord == InitRecord /\ [][NextRecord]_vars

-----------------------------------------------------------------------------
(* shouldFetchNewSketch on its own, for any cadence state and clock *)

\* instants around midnight and around the full hour, on each day
CadenceOffsets ==
    {0, 60 * 1000, HourMs + 60 * 1000 - 1, HourMs + 60 * 1000,
     23 * HourMs + 60 * 1000, MsPerDay - 60 * 1000, MsPerDay - 1}
CadenceTimes ==
    {day * MsPerDay + off : day \in 0..MaxCadenceDays, off \in CadenceOffsets}
Zones == {0, HourMs, 0 - 5 * HourMs}
StoredFrequencies == Frequencies \cup {NoFrequency, "weekly"}

\* pf.last is the instant of the fetch that lastFetchTime records, -1 for none
InitCadence ==
    /\ now \in CadenceTimes
    /\ tz \in Zones
    /\ \E f \in StoredFrequencies, last \in CadenceTimes \cup {-1} :
          /\ store = [FreshStore EXCEPT
                         !.frequency = f,
                         !.lastFetchTime = IF last = -1 THEN NoTime
                                           ELSE ToISOString(last)]
          /\ pf = [op |-> "arguments", last |-> last, res |-> FALSE]
    /\ onLine = TRUE
    /\ tasks = [k \in Slots |-> IdleTask]
    /\ view = NoView
    /\ refreshOnclick = "none"
    /\ keyListener = FALSE
    /\ listeners = FALSE
    /\ isFetching = FALSE
    /\ events = 0
    /\ stamp = NoSketch

\* shouldFetchNewSketch(await getFrequency(), await getLastFetchTime())
EvalShouldFetch ==
    /\ pf.op = "arguments"
    /\ pf' = [pf EXCEPT !.op = "shouldFetchNewSketch",
                        !.res = ShouldFetchNewSketch(GetFrequency(store),
                                    GetLastFetchTime(store), now, tz)]
    /\ UNCHANGED <<store, now, tz, onLine, tasks, view, refreshOnclick,
                   keyListener, listeners, isFetching, events, stamp>>

NextCadence == EvalShouldFetch

SpecCadence == InitCadence /\ [][NextCadence]_vars

-----------------------------------------------------------------------------
(* Properties of fetchNewSketch, checked under SpecFetch *)

\* the positions among the first five results whose uid is not in the window
FreshPositions(results, window) ==
    {j \in 1..5 : /\ j <= Len(results)
                  /\ \A m \in 1..Len(window) : window[m] # results[j].uid}

UidsOf(results) == [j \in 1..Len(results) |-> results[j].uid]

\* C1: the record fetchNewSketch returns is the first of the first five
\* results of its Fetch Client calls whose uid is not in the recency window
\* as read at the start of the call; when all five are in the window it is
\* the sixth result, whatever its uid.
C1_FirstFreshOrSixth ==
    \A k \in Slots :
        (pf.op = "fetchNewSketch" /\ tasks[k].pc = "returned") =>
            LET fresh == FreshPositions(pf.results, tasks[k].recent) IN
            IF fresh # {}
            THEN LET first == CHOOSE j \in fresh : \A m \in fresh : j <= m
                 IN  tasks[k].sketchData = pf.results[first]
            ELSE /\ Len(pf.results) = 6
                 /\ tasks[k].sketchData = pf.results[6]

\* results A, A, A, A, A, B against the window {A}: B is returned
C1_Witness ==
    \E k \in Slots :
        /\ pf.op = "fetchNewSketch"
        /\ tasks[k].pc = "returned"
        /\ tasks[k].recent = <<UidA>>
        /\ UidsOf(pf.results) = <<UidA, UidA, UidA, UidA, UidA, UidB>>
        /\ tasks[k].sketchData = RecB

\* C2: one fetchNewSketch call makes at most six Fetch Client calls and makes
\* no further call once a result is accepted; when every call returns the
\* uid A and A is in the window, it makes exactly six calls and returns A.
C2_AtMostSixCalls ==
    \A k \in Slots :
        (pf.op = "fetchNewSketch" /\ tasks[k].kind # "idle") =>
            /\ tasks[k].calls <= 6
            /\ Len(pf.results) <= tasks[k].calls
            /\ tasks[k].pc \in {"setLastFetchTime", "setLastSketch", "returned"}
                  => tasks[k].calls = Len(pf.results)
            /\ ( /\ tasks[k].pc = "returned"
                 /\ \A j \in 1..Len(pf.results) : pf.results[j].uid = UidA
                 /\ \E m \in 1..Len(tasks[k].recent) : tasks[k].recent[m] = UidA )
                  => /\ tasks[k].calls = 6
                     /\ tasks[k].sketchData.uid = UidA

C2_Witness ==
    \E k \in Slots :
        /\ pf.op = "fetchNewSketch"
        /\ tasks[k].pc = "returned"
        /\ tasks[k].recent = <<UidA>>
        /\ UidsOf(pf.results) = <<UidA, UidA, UidA, UidA, UidA, UidA>>
        /\ tasks[k].calls = 6
        /\ tasks[k].sketchData = RecA

-----------------------------------------------------------------------------
(* Properties of shouldFetchNewSketch, checked under SpecCadence *)

\* the local calendar day an instant falls on, counted from the model's epoch
LocalDay(t) == (t + tz + MsPerDay) \div MsPerDay

Evaluated(frequency) ==
    /\ pf.op = "shouldFetchNewSketch"
    /\ store.frequency = frequency

\* C3: with frequency daily and a lastFetchTime, shouldFetchNewSketch is
\* false exactly when the current instant and lastFetchTime fall on the same
\* local calendar date, whatever the time elapsed between them.
C3_DailyByCalendarDate ==
    (Evaluated("daily") /\ pf.last # -1) =>
        (pf.res <=> LocalDay(now) # LocalDay(pf.last))

\* two minutes after a fetch made one minute before midnight
C3_Witness ==
    /\ Evaluated("daily")
    /\ tz = 0
    /\ pf.last = MsPerDay - 60000
    /\ now = MsPerDay + 60000
    /\ pf.res = TRUE

\* C4: with frequency hourly and a lastFetchTime, shouldFetchNewSketch is
\* true exactly when at least 3,600,000 ms have passed since lastFetchTime.
C4_HourlyByElapsed ==
    (Evaluated("hourly") /\ pf.last # -1) =>
        (pf.res <=> now - pf.last >= 3600000)

C4_Witness ==
    /\ Evaluated("hourly")
    /\ now - pf.last = 3600000
    /\ pf.res = TRUE

\* C5: with frequency each-tab shouldFetchNewSketch is true whatever
\* lastFetchTime is, and with no lastFetchTime it is true for every
\* frequency.
C5_EachTabAndFirstRun ==
    pf.op = "shouldFetchNewSketch" =>
        /\ store.frequency = "each-tab" => pf.res
        /\ pf.last = -1 => pf.res

\* each-tab at the very instant of the last fetch
C5_Witness ==
    /\ Evaluated("each-tab")
    /\ pf.last = now
    /\ pf.res = TRUE

-----------------------------------------------------------------------------
(* Properties of the page, checked under Spec *)

\* flow k takes a step of its own inside nextUniqueSketch
NusStep(k) ==
    /\ events' = events
    /\ tasks'[k] # tasks[k]
    /\ tasks[k].pc \in {"getFrequency", "getLastFetchTime", "getLastSketch"}

\* C6: when the cadence rule requires no fetch and lastSketch exists,
\* nextUniqueSketch returns the stored lastSketch unchanged, makes no Fetch
\* Client call and leaves lastFetchTime, lastSketch, recent and
\* connectivityCache as they are; when lastSketch is absent it goes on to
\* the de-duplicating fetch.
C6_ReusePath ==
    [][\A k \in Slots : NusStep(k) =>
          /\ store' = store
          /\ ( /\ tasks[k].pc = "getLastFetchTime"
               /\ tasks[k].lastFetchTime # NoTime
               /\ ~ShouldFetchNewSketch(tasks[k].frequency,
                                        tasks[k].lastFetchTime, now, tz) )
                => /\ tasks'[k].pc = "getLastSketch"
                   /\ tasks'[k].data = store.lastSketch
          /\ (tasks[k].pc = "getLastSketch" /\ tasks[k].data # NoSketch)
                => /\ tasks'[k].pc = "returned"
                   /\ tasks'[k].sketchData = tasks[k].data
                   /\ tasks'[k].calls = 0
          /\ (tasks[k].pc = "getLastSketch" /\ tasks[k].data = NoSketch)
                => /\ tasks'[k].pc = "getRecent"
                   /\ tasks'[k].recent = store.recent
      ]_vars

C6_Witness ==
    \E k \in Slots :
        /\ tasks[k].pc = "returned"
        /\ tasks[k].acquired = "reused"
        /\ tasks[k].calls = 0
        /\ tasks[k].sketchData # NoSketch
        /\ tasks[k].sketchData = store.lastSketch

\* C7: when fetchNewSketch returns a record, lastFetchTime in the store is
\* the instant the call took and lastSketch in the store is the returned
\* record.
C7_StoreHoldsReturned ==
    \A k \in Slots :
        (tasks[k].pc = "returned" /\ tasks[k].acquired = "fresh") =>
            /\ store.lastFetchTime = ToISOString(tasks[k].at)
            /\ store.lastSketch = tasks[k].sketchData

\* C8: lastFetchTime and lastSketch are updated together: whenever no
\* fetchNewSketch call is between its two writes, the stored lastSketch is
\* the record of the fetch that lastFetchTime records, and a reused sketch
\* is never older than that fetch.
C8_UpdatedTogether ==
    /\ (\A k \in Slots : tasks[k].pc # "setLastFetchTime")
          => store.lastSketch = stamp
    /\ \A k \in Slots :
          (tasks[k].pc = "returned" /\ tasks[k].acquired = "reused" /\
           \A j \in Slots : tasks[j].pc \notin {"setLastFetchTime", "setLastSketch"})
              => tasks[k].sketchData = stamp

\* flow k completes rememberSketch
RememberStep(k) ==
    /\ events' = events
    /\ tasks[k].pc = "getWindow"
    /\ tasks'[k].pc = "setRecent"

\* C9: after rememberSketch the stored window holds at most 24 entries, the
\* uid just pushed is at index 0, and when the window read was full the
\* entry dropped is the oldest, the others keeping their order.
C9_WindowAfterRemember ==
    [][\A k \in Slots : RememberStep(k) =>
          LET uid == tasks[k].sketchData.uid
              w == tasks[k].window
          IN  /\ Len(store'.recent) <= 24
              /\ store'.recent[1] = uid
              /\ Len(w) < 24 => store'.recent = <<uid>> \o w
              /\ Len(w) >= 24 => store'.recent = <<uid>> \o SubSeq(w, 1, 23)
      ]_vars

\* a full window was read and its oldest entry is gone
C9_Witness ==
    \E k \in Slots :
        /\ tasks[k].pc = "setRecent"
        /\ Len(tasks[k].window) = 24
        /\ store.recent =
              <<tasks[k].sketchData.uid>> \o SubSeq(tasks[k].window, 1, 23)
        /\ store.recent[24] # tasks[k].window[24]

\* C10: whenever a sketch is on the page, its uid was pushed onto the
\* recency window by the flow that rendered it, before the render.
C10_PushedBeforeRender ==
    view.kind = "sketch" => view.pushed

\* C11: the stored recency window is changed only by a completing
\* rememberSketch, which writes back the window with the shown uid in
\* front; no step of fetchSketchData, fetchNewSketch, nextUniqueSketch, the
\* diagnosis or the connectivity-cache operations changes the key recent.
C11_RecentOnlyByRemember ==
    [][/\ store'.recent # store.recent => \E k \in Slots : RememberStep(k)
       /\ \A k \in Slots : RememberStep(k) =>
             /\ store'.recent # <<>>
             /\ store'.recent[1] = tasks[k].sketchData.uid
       /\ \A k \in Slots :
             (events' = events /\ tasks'[k] # tasks[k] /\
              tasks[k].pc # "getWindow") => store'.recent = store.recent
      ]_vars

\* a fresh sketch was fetched and stored, and only then pushed
C11_Witness ==
    \E k \in Slots :
        /\ tasks[k].pc = "setRecent"
        /\ tasks[k].acquired = "fresh"
        /\ store.lastSketch = tasks[k].sketchData
        /\ Len(tasks[k].window) < 24
        /\ store.recent = <<tasks[k].sketchData.uid>> \o tasks[k].window

-----------------------------------------------------------------------------
(* Properties of fetchSketchData, checked under SpecClient *)

\* an attempt that failed with a timeout, a network failure or a 5xx status
TransientFailure(o) ==
    \/ o.kind \in {"abort", "network"}
    \/ (o.kind = "status" /\ o.status \in 500..599)

KindsOf(attempts) ==
    [j \in 1..Len(attempts) |->
        IF attempts[j].kind = "status" THEN Decimal(attempts[j].status)
        ELSE <<attempts[j].kind>>]

\* C12: a fetchSketchData call makes at most 3 attempts; an attempt before
\* the third that fails with a timeout, a network failure or a status in
\* 500-599 is followed by another attempt, after 1 s before the second and
\* 2 s before the third; 503, 503, success returns the success record after
\* exactly 3 attempts.
C12_RetriesTransient ==
    pf.op = "fetchSketchData" =>
        /\ Len(pf.attempts) <= 3
        /\ Len(pf.delays) <= 2
        /\ pf.delays = SubSeq(<<1000, 2000>>, 1, Len(pf.delays))
        /\ \A j \in 1..Len(pf.attempts) :
              (j < 3 /\ TransientFailure(pf.attempts[j]))
                  => /\ Len(pf.delays) >= j
                     /\ (pf.settled # "" => Len(pf.attempts) > j)
        /\ ( /\ pf.settled # ""
             /\ Len(pf.attempts) = 3
             /\ pf.attempts[1] = StatusOutcome(503)
             /\ pf.attempts[2] = StatusOutcome(503)
             /\ pf.attempts[3] = OkOutcome(BodyB) )
              => /\ pf.settled = "returned"
                 /\ pf.record = RecB
                 /\ pf.delays = <<1000, 2000>>

C12_Witness ==
    /\ pf.op = "fetchSketchData"
    /\ KindsOf(pf.attempts) = <<<<"5", "0", "3">>, <<"5", "0", "3">>, <<"ok">>>>
    /\ pf.settled = "returned"
    /\ pf.record = RecB
    /\ pf.delays = <<1000, 2000>>

\* C13: a fetchSketchData call whose first attempt receives a status outside
\* 500-599 makes no second attempt: it fails at once with the HTTP-status
\* error.
C13_NoRetryOn4xx ==
    ( /\ pf.op = "fetchSketchData"
      /\ Len(pf.attempts) >= 1
      /\ pf.attempts[1].kind = "status"
      /\ pf.attempts[1].status \notin 500..599 )
        => /\ Len(pf.attempts) = 1
           /\ pf.delays = <<>>
           /\ pf.settled = "threw"
           /\ pf.error.message = MsgFailedStatus \o Decimal(pf.attempts[1].status)

\* C14: every fetchSketchData call eventually settles, returning a record or
\* throwing, and a call whose 3 attempts all time out throws the timed-out
\* error.
C14_EveryCallSettles ==
    /\ [](( /\ pf.op = "fetchSketchData"
            /\ Len(pf.attempts) = 3
            /\ \A j \in 1..3 : pf.attempts[j].kind = "abort" )
              => (pf.settled = "threw" /\ pf.error.message = MsgTimedOut))
    /\ (pf.op = "fetchSketchData") ~> (pf.settled # "")

\* C15: fetchSketchData never returns a record with an empty uid, and an
\* attempt whose response body lacks uid is the last attempt of the call,
\* which fails.
C15_NoUidFailsAtOnce ==
    pf.op = "fetchSketchData" =>
        /\ pf.settled = "returned" => pf.record.uid # <<>>
        /\ \A j \in 1..Len(pf.attempts) :
              (pf.attempts[j].kind = "ok" /\ pf.attempts[j].body.uid = <<>>)
                  => (j = Len(pf.attempts) /\ pf.settled = "threw")

\* C16: no step of a fetchSketchData call, on success, on failure or across
\* its retries, changes a key of the Key-Value Store.
C16_NoStoreWrite ==
    [][pf.op = "fetchSketchData" => store' = store]_vars

\* the call returned B after two retries and the store still holds A
C16_Witness ==
    /\ pf.op = "fetchSketchData"
    /\ pf.settled = "returned"
    /\ Len(pf.attempts) = 3
    /\ pf.record = RecB
    /\ store.lastSketch = RecA
    /\ store = UsedStore("daily", <<UidA>>)

-----------------------------------------------------------------------------
(* Properties of diagnoseConnectivity, checked under SpecDiagnose *)

\* C17: diagnoseConnectivity returns offline with no probe sent when the
\* browser reports no connectivity; otherwise it sends one probe and
\* returns service_issue if the probe got a response and offline if the
\* probe failed.
C17_DiagnosisByProbe ==
    \A k \in Slots :
        /\ tasks[k].pc = "probeInternet" => (onLine /\ tasks[k].probe = "pending")
        /\ tasks[k].pc = "setConnectivityCache" =>
              IF ~onLine
              THEN tasks[k].diag = "offline" /\ tasks[k].probe = ""
              ELSE \/ tasks[k].probe = "response" /\ tasks[k].diag = "service_issue"
                   \/ tasks[k].probe = "failed" /\ tasks[k].diag = "offline"

\* online, the probe failed, and the diagnosis is offline
C17_Witness ==
    \E k \in Slots :
        /\ onLine
        /\ tasks[k].pc = "setConnectivityCache"
        /\ tasks[k].probe = "failed"
        /\ tasks[k].diag = "offline"

\* C18: when the probe request never receives a response,
\* diagnoseConnectivity still returns, with state offline, once the probe's
\* 4-second timer has fired.
C18_ProbeTimesOut ==
    \A k \in Slots :
        (tasks[k].probe = "hung") ~> (tasks[k].diag = "offline")

-----------------------------------------------------------------------------
(* Properties of shouldUseCachedError, checked under SpecCachedError *)

\* C19: shouldUseCachedError is true exactly when a connectivity cache entry
\* exists, its state is service_issue and fewer than 120,000 ms have passed
\* since it was written; an offline entry is never reused.
C19_CachedErrorValidity ==
    pf.op = "shouldUseCachedError" =>
        (pf.res <=> ( /\ pf.written # -1
                      /\ store.connectivityCache.state = "service_issue"
                      /\ now - pf.written < 120000 ))

\* a service_issue entry written at T is reused at T + 90 s
C19_Witness ==
    /\ pf.op = "shouldUseCachedError"
    /\ pf.written # -1
    /\ store.connectivityCache.state = "service_issue"
    /\ now - pf.written = 90000
    /\ pf.res = TRUE

-----------------------------------------------------------------------------
(* Properties of the page load with a cached classification, under Spec *)

\* flow k takes a step of its own from the call named pc
FlowStep(k, pc) ==
    /\ events' = events
    /\ tasks'[k] # tasks[k]
    /\ tasks[k].pc = pc

\* C20: on a page load with a valid cached service_issue entry, init sends
\* one quick request to the content API before anything else; if the
\* request returns a record with a uid, init clears the cache and goes on
\* to render the sketch without showing an error state; otherwise init
\* shows the error state of the cache entry it read and ends, with no probe.
C20_QuickRecoveryCheck ==
    [][\A k \in Slots :
          /\ ( /\ FlowStep(k, "shouldUseCachedError")
               /\ tasks[k].cache.state = "service_issue"
               /\ now - tasks[k].cache.timestamp < 120000 )
                => tasks'[k].pc = "getConnectivityCache"
          /\ FlowStep(k, "getConnectivityCache") => tasks'[k].pc = "quickFetch"
          /\ FlowStep(k, "quickFetch") =>
                \/ /\ tasks'[k].pc = "clearQuick"
                   /\ tasks'[k].sketchData.uid # <<>>
                   /\ store'.connectivityCache = NoCache
                   /\ view' = view
                \/ /\ tasks'[k].kind = "idle"
                   /\ view'.kind = "error"
                   /\ view'.state = tasks[k].cache.state
                   /\ store' = store
          /\ ( /\ tasks[k].acquired = "quick"
               /\ events' = events
               /\ tasks'[k] # tasks[k] )
                => (view' = view \/ view'.kind = "sketch")
      ]_vars

-----------------------------------------------------------------------------
(* Properties of the failure handling and of the in-flight guard, under
   Spec *)

\* flow k ends in this step by showing an error state for its failed
\* acquisition
ShowsFailure(k) ==
    /\ events' = events
    /\ tasks[k].kind # "idle"
    /\ tasks[k].pc \in {"fetchSketchData", "setConnectivityCache"}
    /\ tasks'[k].kind = "idle"
    /\ view'.kind = "error"

\* C21: every flow that shows an error state for a failed acquisition
\* (initial load, refresh button on a rendered sketch or on an error state,
\* Try Again, online auto-retry) has called diagnoseConnectivity before and
\* shows its result, and the result of every diagnoseConnectivity call is
\* stored in connectivityCache with the time of the call.
C21_DiagnosedBeforeShown ==
    [][\A k \in Slots :
          /\ ShowsFailure(k) =>
                /\ tasks[k].diag \in {"offline", "service_issue"}
                /\ view'.state = tasks[k].diag
          /\ ( /\ events' = events
               /\ tasks'[k].diag # tasks[k].diag
               /\ tasks'[k].diag # "" )
                => store'.connectivityCache =
                      [state |-> tasks'[k].diag, timestamp |-> now]
      ]_vars

\* C22: when a flow renders the sketch it fetched (initial load, refresh from
\* a rendered sketch or from an error state, Try Again, online auto-retry,
\* quick check), a classification that was stored when the fetch succeeded is
\* stored no longer.
C22_ClearedAfterSuccess ==
    [][\A k \in Slots :
          ( /\ FlowStep(k, "setRecent")
            /\ tasks[k].acquired \in {"fresh", "quick"}
            /\ tasks[k].seen # NoCache )
             => store.connectivityCache # tasks[k].seen
      ]_vars

RefreshKinds == {"handleRefresh", "errRefresh"}

\* C23: a refresh trigger (click, Enter or Space on the button, the n or
\* ArrowRight shortcut) that comes while isFetching is true starts no flow
\* and changes neither the store nor the page; a refresh flow starts only
\* when the flag is clear, and the flag is set while a refresh flow is in
\* flight.
C23_NoReentry ==
    [][/\ (pf'.triggers # pf.triggers /\ isFetching) =>
             /\ pf'.inFlight
             /\ UNCHANGED <<store, tasks, isFetching, view, refreshOnclick,
                            stamp>>
       /\ \A k \in Slots :
             (tasks[k].kind \notin RefreshKinds
                  /\ tasks'[k].kind \in RefreshKinds) =>
                (~isFetching /\ isFetching')
       /\ (\E k \in Slots : tasks[k].kind \in RefreshKinds) => isFetching
      ]_vars

\* a trigger has come while a refresh flow was fetching, and that flow is
\* still the only one
C23_Witness ==
    /\ pf.triggers >= 2
    /\ pf.inFlight
    /\ isFetching
    /\ Cardinality({k \in Slots : tasks[k].kind \in RefreshKinds}) = 1
    /\ \E k \in Slots : tasks[k].kind \in RefreshKinds
                           /\ tasks[k].pc = "fetchSketchData"

\* flow k is between the start of its fetchNewSketch call and the end of the
\* rememberSketch call that follows it
AcquisitionPcs ==
    {"getRecent", "fetchSketchData", "backoff", "setLastFetchTime",
     "setLastSketch", "returned", "clearConnectivityCache", "getWindow"}
Acquiring(k) ==
    /\ tasks[k].pc \in AcquisitionPcs
    /\ tasks[k].acquired \notin {"reused", "quick"}

\* C24: at most one acquisition flow (fetchNewSketch followed by
\* rememberSketch) is in flight at a time, whatever the interleaving of
\* initial load, refresh, Try Again and online auto-retry.
C24_SingleWriter == Cardinality({k \in Slots : Acquiring(k)}) <= 1

-----------------------------------------------------------------------------
(* Properties of the refresh button, under SpecRefresh *)

\* C25: the in-flight flag is set only while a refresh flow is running, a
\* refresh trigger that finds the flag clear is accepted, and every refresh
\* that sets the flag settles and resets it, on success and on failure
\* (diagnosis included).
C25_FlagReset ==
    /\ [](isFetching => \E k \in Slots : tasks[k].kind \in RefreshKinds)
    /\ [][(pf'.triggers # pf.triggers /\ ~isFetching) =>
             /\ isFetching'
             /\ \E k \in Slots : tasks'[k].kind \in RefreshKinds
         ]_vars
    /\ (isFetching ~> ~isFetching)

-----------------------------------------------------------------------------
(* Properties of a failing fetchNewSketch call, under SpecFetch *)

\* C26: inside fetchNewSketch nothing is written to the store before a Fetch
\* Client call has returned a record that is accepted; when a Fetch Client
\* call fails (its attempt fails and is not retried), the loop does not go
\* on: the store is left as it was and the catch block of the caller runs.
C26_FailurePropagates ==
    [][\A k \in Slots :
          ( /\ tasks[k].pc \in {"getRecent", "fetchSketchData", "backoff"}
            /\ tasks'[k] # tasks[k] ) =>
             \/ /\ tasks'[k].pc = "setLastFetchTime"
                /\ Len(pf'.results) = Len(pf.results) + 1
             \/ /\ tasks'[k].pc \in {"fetchSketchData", "backoff"}
                /\ store' = store
             \/ /\ tasks[k].pc = "fetchSketchData"
                /\ pf'.results = pf.results
                /\ tasks'[k].kind = "idle"
                /\ view'.kind = "error"
                /\ store' = store
      ]_vars

\* the call has failed at its second Fetch Client call, after the retries
\* of that call, and the store holds the sketch it held before
C26_Witness ==
    /\ tasks[1].kind = "idle"
    /\ view.kind = "error"
    /\ Len(pf.results) = 1
    /\ pf.requests = 2 + MaxRetries
    /\ store.lastSketch = stamp
    /\ store.lastFetchTime = ToISOString(MainStart - HourMs \div 2)

-----------------------------------------------------------------------------
(* Properties of the error states, under Spec *)

\* C27: an error state for offline has no "Show last sketch" button, and an
\* error state for service_issue has one if and only if the store holds a
\* lastSketch.
C27_FallbackOnlyIfCached ==
    view.kind = "error" =>
        /\ view.state = "offline" => ~HasShowCachedButton
        /\ view.state = "service_issue" =>
              (HasShowCachedButton <=> store.lastSketch # NoSketch)

\* C28: a Try Again flow starts by calling fetchNewSketch and makes a request
\* to the content API, whatever the store holds; it shows an error state
\* only after that call has failed, having acquired no sketch.
C28_RetryFetchesFirst ==
    [][\A k \in Slots :
          /\ (tasks[k].kind # "retry" /\ tasks'[k].kind = "retry") =>
                /\ tasks'[k].pc = "getRecent"
                /\ view' = LoadingView
                /\ store' = store
          /\ (tasks[k].kind = "retry" /\ FlowStep(k, "getRecent")) =>
                /\ tasks'[k].pc = "fetchSketchData"
                /\ tasks'[k].calls = 1
          /\ ( /\ tasks[k].kind = "retry"
               /\ events' = events
               /\ tasks'[k] # tasks[k]
               /\ view'.kind = "error"
               /\ view' # view ) =>
                /\ tasks[k].pc = "setConnectivityCache"
                /\ tasks[k].calls >= 1
                /\ tasks[k].acquired = ""
      ]_vars

\* a Try Again flow has its request in flight although the store holds a
\* valid service_issue entry, a sketch, and a cadence that asks for no fetch
C28_Witness ==
    /\ \E k \in Slots : /\ tasks[k].kind = "retry"
                        /\ tasks[k].pc = "fetchSketchData"
    /\ ShouldUseCachedError(store.connectivityCache, now)
    /\ store.lastSketch # NoSketch
    /\ ~ShouldFetchNewSketch(GetFrequency(store), GetLastFetchTime(store),
                             now, tz)

-----------------------------------------------------------------------------
(* Properties of the rendered sketch, under Spec *)

\* C29: whenever a flow renders a sketch (after an acquisition, after the
\* quick check of a page load, or from the "Show last sketch" button), the
\* stored lastSketch is the record it renders.
C29_LastSketchIsRendered ==
    [][\A k \in Slots :
          /\ FlowStep(k, "setRecent") =>
                /\ view'.sketch = tasks[k].sketchData
                /\ store'.lastSketch = tasks[k].sketchData
          /\ (FlowStep(k, "getCachedSketch") /\ tasks[k].data # NoSketch) =>
                /\ view'.sketch = tasks[k].data
                /\ store'.lastSketch = tasks[k].data
      ]_vars

-----------------------------------------------------------------------------
(* Properties of the record built from a response, under SpecRecord *)

\* t is uid with every hyphen turned into a space
HyphensToSpaces(uid, t) ==
    /\ Len(t) = Len(uid)
    /\ \A j \in 1..Len(uid) : t[j] = (IF uid[j] = "-" THEN " " ELSE uid[j])

-----------------------------------------------------------------------------
(* Properties of the storage object, under SpecStorage *)

\* C31: get(key, d) after set(key, v) returns the same on the extension
\* storage and on the localStorage fallback, for every JSON value v, null
\* included, and returns v when v is not null; get of a key never written
\* returns d on both.
C31_BackendsAgree ==
    /\ pf.step = "gotWritten" =>
          /\ pf.resChrome = pf.resLocal
          /\ pf.val # JNull => pf.resChrome = pf.val
    /\ pf.step = "gotUnwritten" =>
          /\ pf.resChrome = pf.defaultValue
          /\ pf.resLocal = pf.defaultValue

-----------------------------------------------------------------------------
(* Properties of the retries of a fetchSketchData call, under SpecClient *)

\* the attempt ended in a failure that is neither a timeout, nor a network
\* failure, nor a status in 500-599
NonTransientFailure(o) ==
    /\ o.kind \in {"ok", "status", "json"}
    /\ ~AttemptSucceeds(o)
    /\ ~TransientFailure(o)

\* C32: an attempt after the first that fails with a non-transient error is
\* the last attempt of the call, which fails with that error, also when
\* retries remain.
C32_StopsAtNonTransient ==
    pf.op = "fetchSketchData" =>
        \A j \in 2..Len(pf.attempts) :
            NonTransientFailure(pf.attempts[j]) =>
                /\ j = Len(pf.attempts)
                /\ pf.settled = "threw"
                /\ pf.error = AttemptError(pf.attempts[j])

-----------------------------------------------------------------------------
(* Properties of the recency window with flows side by side, under Spec *)

\* C33: no completed rememberSketch call is lost: the write of a
\* rememberSketch call keeps every uid that the stored window held, but for
\* the one evicted past 24 entries, so the uids pushed by two calls are both
\* in the window once both calls have completed.
C33_NoLostUpdate ==
    [][\A k \in Slots :
          FlowStep(k, "getWindow") =>
              \A j \in 1..Len(store.recent) :
                  j < RecentSize => RecentIncludes(store'.recent, store.recent[j])
      ]_vars

-----------------------------------------------------------------------------
(* Properties of the requests of a fetchNewSketch call, under SpecFetch *)

\* C35: one fetchNewSketch call makes at most 18 HTTP requests, at most 3
\* for each of its at most 6 Fetch Client calls; a Fetch Client call that
\* fails ends fetchNewSketch, and no request is made after that.
C35_AtMostEighteenRequests ==
    /\ [](pf.op = "fetchNewSketch" =>
            /\ pf.requests <= 18
            /\ \A k \in Slots :
                  /\ tasks[k].retryCount <= 2
                  /\ tasks[k].kind # "idle" =>
                        pf.requests <= 3 * tasks[k].calls)
    /\ [][/\ \A k \in Slots :
               ( /\ tasks[k].pc = "fetchSketchData"
                 /\ pf'.requests = pf.requests + 1
                 /\ pf'.results = pf.results
                 /\ tasks'[k].pc # "backoff" )
                  => (tasks'[k].kind = "idle" /\ view'.kind = "error")
       /\ (\A k \in Slots : tasks[k].kind = "idle") =>
              pf'.requests = pf.requests
      ]_vars

\* six calls of three requests each: two 503 and the record a-x, which is in
\* the window
C35_Witness ==
    /\ pf.op = "fetchNewSketch"
    /\ pf.requests = 18
    /\ Len(pf.results) = 6
    /\ \E k \in Slots : tasks[k].pc = "returned" /\ tasks[k].calls = 6

-----------------------------------------------------------------------------
(* Properties of the cadence defaults, under SpecCadence *)

\* C36: getFrequency returns daily when no frequency was ever stored, so that
\* shouldFetchNewSketch then follows the daily rule; and shouldFetchNewSketch
\* returns true for any stored frequency other than daily, hourly and
\* each-tab.
C36_DefaultFrequency ==
    pf.op = "shouldFetchNewSketch" =>
        /\ store.frequency = NoFrequency =>
              /\ GetFrequency(store) = "daily"
              /\ pf.last # -1 =>
                    (pf.res <=> LocalDay(now) # LocalDay(pf.last))
        /\ store.frequency \notin {NoFrequency, "daily", "hourly", "each-tab"}
              => pf.res

\* the stored frequency is weekly, at the very instant of the last fetch
C36_Witness ==
    /\ Evaluated("weekly")
    /\ pf.last = now
    /\ pf.res = TRUE

-----------------------------------------------------------------------------
(* Properties of the age of a reused classification, under Spec *)

\* C37: showing a cached error at page load does not rewrite
\* connectivityCache; an entry is written only by a diagnosis, with the
\* instant of that diagnosis as its timestamp; and init takes the cached
\* path only for an entry written less than 2 minutes before. So no
\* classification is reused later than 2 minutes after its diagnosis,
\* however many pages are opened in between.
C37_CachedErrorKeepsAge ==
    [][/\ \A k \in Slots :
             /\ ( /\ FlowStep(k, "quickFetch")
                  /\ tasks'[k].kind = "idle" )
                   => store'.connectivityCache = store.connectivityCache
             /\ ( /\ FlowStep(k, "shouldUseCachedError")
                  /\ tasks'[k].pc = "getConnectivityCache" )
                   => /\ tasks[k].cache # NoCache
                      /\ now - tasks[k].cache.timestamp < 120000
       /\ ( /\ store'.connectivityCache # store.connectivityCache
            /\ store'.connectivityCache # NoCache )
             => /\ store'.connectivityCache.timestamp = now
                /\ \E k \in Slots :
                      /\ tasks'[k].pc = "setConnectivityCache"
                      /\ tasks'[k].diag = store'.connectivityCache.state
      ]_vars

\* the page has shown the service issue diagnosed 90 s before it was opened,
\* its init has ended, and the entry is as it was
C37_Witness ==
    /\ now = MainStart
    /\ \A k \in Slots : tasks[k].kind = "idle"
    /\ view.kind = "error"
    /\ view.state = "service_issue"
    /\ store.connectivityCache =
          [state |-> "service_issue", timestamp |-> MainStart - 90 * 1000]

-----------------------------------------------------------------------------
(* Properties of the prefetch of renderOrRedirect, under SpecClient *)

\* C38: the prefetch request of renderOrRedirect, whether it succeeds or
\* fails, writes no key of the store, leaves the rendered sketch on the
\* page and never leads to an error state.
C38_PrefetchNonCritical ==
    /\ [](pf.op = "fetchSketchData" =>
             (view.kind = "sketch" /\ view.sketch = RecA))
    /\ [][pf.op = "fetchSketchData" =>
             /\ store'.lastSketch = store.lastSketch
             /\ store'.lastFetchTime = store.lastFetchTime
             /\ store'.recent = store.recent
             /\ store'.connectivityCache = store.connectivityCache
             /\ view' = view
             /\ refreshOnclick' = refreshOnclick
      ]_vars

\* the prefetch call has failed after its retries and renderOrRedirect has
\* returned: the page shows the sketch it rendered
C38_Witness ==
    /\ pf.op = "fetchSketchData"
    /\ pf.settled = "threw"
    /\ Len(pf.attempts) = 3
    /\ tasks[1].kind = "idle"
    /\ view.kind = "sketch"
    /\ view.sketch = RecA
    /\ refreshOnclick = "handleRefresh"

-----------------------------------------------------------------------------
(* Properties of the online listener, under Spec *)

\* flow k, an online handler, takes a step of its own
OnlineStep(k) ==
    /\ events' = events
    /\ tasks[k].kind = "online"
    /\ tasks'[k] # tasks[k]

\* the cache is empty or holds an entry stamped at or after instant t
EmptyOrSince(cache, t) == cache = NoCache \/ cache.timestamp >= t

\* C39: on the online event the handler first clears connectivityCache and
\* then runs nextUniqueSketch; when that returns a sketch, the handler
\* remembers it and renders it; when it fails, the handler stores a
\* diagnosis made then and shows its error state, and nothing else ends the
\* handler with an error.  So while the handler runs and when it settles,
\* the cache is empty or holds a classification made after the event.
C39_OnlineRetry ==
    /\ [](\A k \in Slots :
             tasks[k].kind = "online" =>
                EmptyOrSince(store.connectivityCache, tasks[k].since))
    /\ [][/\ (events' # events /\ ~onLine /\ onLine' /\ listeners) =>
                /\ store'.connectivityCache = NoCache
                /\ \E k \in Slots :
                      /\ tasks[k].kind = "idle"
                      /\ tasks'[k].kind = "online"
                      /\ tasks'[k].pc = "clearOnline"
          /\ \A k \in Slots :
                OnlineStep(k) =>
                   /\ tasks[k].pc = "clearOnline" =>
                         /\ tasks'[k].pc = "getFrequency"
                         /\ store' = store
                   /\ tasks[k].pc = "returned" =>
                         /\ tasks'[k].pc = "getWindow"
                         /\ tasks'[k].sketchData = tasks[k].sketchData
                         /\ store' = store
                   /\ tasks[k].pc = "getWindow" =>
                         /\ Head(store'.recent) = tasks[k].sketchData.uid
                         /\ tasks'[k].pc = "setRecent"
                   /\ tasks[k].pc = "setRecent" =>
                         /\ view'.kind = "sketch"
                         /\ view'.sketch = tasks[k].sketchData
                   /\ tasks'[k].pc = "setConnectivityCache" =>
                         store'.connectivityCache =
                            [state |-> tasks'[k].diag, timestamp |-> now]
                   /\ tasks[k].pc = "setConnectivityCache" =>
                         /\ view'.kind = "error"
                         /\ view'.state = tasks[k].diag
                         /\ tasks'[k].kind = "idle"
                   /\ (view'.kind = "error" /\ view' # view) =>
                         tasks[k].pc = "setConnectivityCache"
                   /\ tasks'[k].kind = "idle" =>
                         /\ tasks[k].pc \in {"setConnectivityCache", "prefetch"}
                         /\ EmptyOrSince(store'.connectivityCache,
                                         tasks[k].since)
      ]_vars

\* the handler of an online event has failed to get a sketch, has stored
\* the service issue it diagnosed, and is about to show it; the entry
\* diagnosed 90 s before the page was opened is gone
C39_Witness ==
    \E k \in Slots :
        /\ tasks[k].kind = "online"
        /\ tasks[k].pc = "setConnectivityCache"
        /\ tasks[k].diag = "service_issue"
        /\ store.connectivityCache =
              [state |-> "service_issue", timestamp |-> now]
        /\ now > MainStart
        /\ tasks[k].since = now

====
